---------------------------- MODULE Spec2Model ----------------------------
(***************************************************************************)
(* Model of the hardware monitor of idm-test (src/monitor.py): the probes  *)
(* of the CPU and SSD temperature chains, the construction-time discovery  *)
(* (_detect_best_methods), the sticky-method readers get_cpu_temperature / *)
(* get_ssd_temperature, read_sensors, get_system_info and the labels.      *)
(*                                                                         *)
(* Temperatures are integers in hundredths of a degree Celsius, so that    *)
(* round(x, 1) is a real conversion (Round1).  ACPI raw values are tenths  *)
(* of a Kelvin, as the firmware reports them.                              *)
(*                                                                         *)
(* Every probe invocation is one step: what the backend answers at that    *)
(* invocation is the step's input, so a backend may change between any two *)
(* invocations, also inside one call.                                      *)
(***************************************************************************)
EXTENDS Integers, Sequences, FiniteSets

VARIABLES
    WMI_AVAILABLE,  \* monitor.py:32-36, the wmi module was imported
    LHM_READY,      \* monitor.py:42, 84, 88
    lhm_computer,   \* _lhm_computer is not None (monitor.py:43, 83)
    wmi_ohm,        \* self._wmi_ohm is not None
    wmi_root,       \* self._wmi_root is not None
    wmi_storage,    \* self._wmi_storage is not None
    cpu_method,     \* self._cpu_method
    ssd_method,     \* self._ssd_method
    pc,             \* position of the (single) thread that uses the monitor
    op,             \* the public operation running, or the one that just ended
    metric,         \* chain of the pass in progress / just ended: "cpu" or "ssd"
    kind,           \* "detect" (construction-time loop) or "get" (get_*_temperature)
    idx,            \* loop index of the chain walk in progress
    prev,           \* selected method when the pass began
    calls,          \* probe invocations of the pass, in order: <<[name, res], ...>>
    ret,            \* what the pass returned (Pending while it runs)
    util,           \* read_sensors locals cpu_percent, ram.percent, disk.percent
    cpu_temp,       \* read_sensors local cpu_temp (monitor.py:426)
    reading,        \* the SensorReading the last read_sensors returned, or NoReading
    cpu_absent,     \* every CPU probe invocation so far returned None
    ssd_absent,     \* every SSD probe invocation so far returned None
    ticks,          \* completed get_cpu_temperature calls, saturating at MaxTicks
    last_raw,       \* what the backend answered at the probe invocation just made
    last_fn,        \* the probe function invoked at the step just made, or NoFn
    env,            \* answers the backends are held to (Free: any answer)
    first,          \* SpecDet: what the first monitor's read gave, or NoFirst
    readings,       \* the list of readings handed to the reporter
    verdict,        \* what evaluate_status returned, or NoVerdict
    ui,             \* where the UI thread is: in __init__, in the event loop, in stop()
    running,        \* IDMTestApp._running
    btn_start,      \* state of the Start button
    btn_stop,       \* state of the Stop button
    lbl_sensor_info, \* the two method labels of the status line
    metric_text,    \* texts of the two temperature labels
    shown,          \* the reading _update_metrics was last called with
    ui_queue,       \* callbacks scheduled with root.after and not yet run
    csv,            \* the CSV file: none, open, closed
    csv_rows,       \* the rows written to the CSV file
    taken,          \* for each reading of `readings': the run and phase that took it
    test_thread,    \* the test threads: position and locals of _run_test
    runs,           \* test threads started
    reads,          \* read_sensors calls made by the test threads
    chart,          \* the chart file: none, written, failed
    report,         \* what the PDF report says, or NoPdf
    s_running,      \* StressEngine._running
    s_mode,         \* StressEngine._mode
    s_threads,      \* StressEngine._threads
    workers,        \* the worker threads: none, alive, exited
    changes         \* backend changes so far

vars == <<WMI_AVAILABLE, LHM_READY, lhm_computer, wmi_ohm, wmi_root, wmi_storage,
          cpu_method, ssd_method, pc, op, metric, kind, idx, prev, calls, ret,
          util, cpu_temp, reading, cpu_absent, ssd_absent, ticks, last_raw, last_fn,
          env, first, readings, verdict, ui, running, btn_start, btn_stop,
          lbl_sensor_info, metric_text, shown, ui_queue, csv, csv_rows, taken,
          test_thread, runs, reads, chart, report, s_running, s_mode, s_threads, workers,
          changes>>

\* the application around the monitor
appvars == <<ui, running, btn_start, btn_stop, lbl_sensor_info, metric_text,
             shown, ui_queue, csv, csv_rows, taken, test_thread, runs, reads, chart, report,
             s_running, s_mode, s_threads, workers, changes>>

\* what the operations of the monitor never write
outside == <<env, first, readings, verdict, appvars>>

handles == <<WMI_AVAILABLE, LHM_READY, lhm_computer, wmi_ohm, wmi_root, wmi_storage>>

\* Saturation point of the history counter ticks.
MaxTicks == 3

-----------------------------------------------------------------------------
(* Values *)

\* Python None as a method name.
NoMethod == "<None>"

\* Optional[float] results; Raised stands for an exception leaving the callee.
None == [tag |-> "None", v |-> 0]
Raised == [tag |-> "raise", v |-> 0]
Pending == [tag |-> "pending", v |-> 0]
Val(x) == [tag |-> "val", v |-> x]
IsVal(r) == r.tag = "val"

NoReading == [tag |-> "none"]
NoUtil == [cpu |-> -1, ram |-> -1, disk |-> -1]

\* What a backend answers at one invocation.
\*   missing   : nothing to read (no hardware entry, no sensor, empty output)
\*   timeout   : the helper process did not start, timed out or exited non-zero
\*   malformed : the backend raised, or its data does not parse as a number
\*   huge      : a decimal integer of more than 309 digits
\*   num       : a number v
Out(k, v) == [k |-> k, v |-> v]

\* Sensor values in hundredths of a degree: -5.00, 0.00, 42.30, 50.00, 149.96,
\* 150.00 and 9999.00.
FloatTemps == {-500, 0, 4230, 5000, 14996, 15000, 999900}

\* MSAcpi_ThermalZoneTemperature.CurrentTemperature in tenths of a Kelvin:
\* -0.05, 42.35, 149.95 and 150.05 degrees Celsius.
AcpiRaws == {2731, 3155, 4231, 4232}

SensorOutcomes ==
    {Out("missing", 0), Out("malformed", 0)} \cup {Out("num", v) : v \in FloatTemps}

AcpiWmiOutcomes ==
    {Out("missing", 0), Out("malformed", 0), Out("huge", 0)}
        \cup {Out("num", v) : v \in AcpiRaws}

AcpiPsOutcomes ==
    {Out("missing", 0), Out("timeout", 0), Out("malformed", 0), Out("huge", 0)}
        \cup {Out("num", v) : v \in AcpiRaws}

PsFloatOutcomes ==
    {Out("missing", 0), Out("timeout", 0), Out("malformed", 0), Out("huge", 0)}
        \cup {Out("num", v) : v \in FloatTemps}

StorageOutcomes ==
    {Out("missing", 0), Out("malformed", 0), Out("huge", 0)}
        \cup {Out("num", v) : v \in FloatTemps}

\* round(x, 1) on hundredths: to the nearest tenth, a tie to the even tenth.
Round1(h) ==
    LET q == h \div 10
        r == h % 10
    IN  IF r < 5 THEN q * 10
        ELSE IF r > 5 THEN (q + 1) * 10
        ELSE IF q % 2 = 0 THEN q * 10 ELSE (q + 1) * 10

\* The plausibility test every validating probe applies: 0 < val < 150.
InRange(h) == 0 < h /\ h < 15000

\* if 0 < val < 150: return round(val, 1)
Validated(h) == IF InRange(h) THEN Val(Round1(h)) ELSE None

\* (raw / 10.0) - 273.15, in hundredths of a degree.
AcpiCelsius(raw) == raw * 10 - 27315

-----------------------------------------------------------------------------
(* _run_powershell: stdout of the helper, or None *)

NoOutput == Out("none", 0)

run_powershell(o) ==
    IF o.k \in {"missing", "timeout"} THEN NoOutput ELSE o

\* no probe was invoked in the step just taken
NoRaw == Out("none", 0)

-----------------------------------------------------------------------------
(* CPU temperature probes *)

\* if not LHM_READY or _lhm_computer is None: return None  (monitor.py:199)
cpu_temp_lhm(o) ==
    IF ~LHM_READY \/ ~lhm_computer THEN None
    ELSE IF o.k = "num" THEN Validated(o.v)
    ELSE None

cpu_temp_ohm(o) ==
    IF ~wmi_ohm THEN None
    ELSE IF o.k = "num" THEN Validated(o.v)
    ELSE None

cpu_temp_wmi_acpi(o) ==
    IF ~wmi_root THEN None
    ELSE IF o.k = "num" THEN Validated(AcpiCelsius(o.v))
    ELSE None

\* int(output) succeeds on a huge integer and raw / 10.0 then raises
\* OverflowError, which except (ValueError, TypeError) does not catch.
cpu_temp_ps_acpi(o) ==
    LET output == run_powershell(o)
    IN  IF output = NoOutput THEN None
        ELSE IF output.k = "num" THEN Validated(AcpiCelsius(output.v))
        ELSE IF output.k = "huge" THEN Raised
        ELSE None

\* returns entries[0].current as it is: no range test, no rounding.
cpu_temp_psutil(o) ==
    IF o.k = "num" THEN Val(o.v) ELSE None

-----------------------------------------------------------------------------
(* SSD temperature probes *)

\* if not LHM_READY or _lhm_computer is None: return None  (monitor.py:305)
ssd_temp_lhm(o) ==
    IF ~LHM_READY \/ ~lhm_computer THEN None
    ELSE IF o.k = "num" THEN Validated(o.v)
    ELSE None

ssd_temp_ohm(o) ==
    IF ~wmi_ohm THEN None
    ELSE IF o.k = "num" THEN Validated(o.v)
    ELSE None

\* float(output) of a huge integer is inf, which fails the range test.
ssd_temp_ps_reliability(o) ==
    LET output == run_powershell(o)
    IN  IF output = NoOutput THEN None
        ELSE IF output.k = "num" THEN Validated(output.v)
        ELSE None

ssd_temp_wmi_storage(o) ==
    IF ~wmi_storage THEN None
    ELSE IF o.k = "num" THEN Validated(o.v)
    ELSE None

-----------------------------------------------------------------------------
(* The chains *)

\* _detect_best_methods: cpu_methods and ssd_methods, in list order
cpu_methods == <<"lhm", "ohm_wmi", "wmi_acpi", "ps_acpi", "psutil">>
ssd_methods == <<"lhm", "ohm_wmi", "ps_reliability", "wmi_storage">>

\* dispatch built with the last-resort probe first
cpu_dispatch_reordered == <<"psutil", "lhm", "ohm_wmi", "wmi_acpi", "ps_acpi">>

\* get_cpu_temperature / get_ssd_temperature: the keys of dispatch, in
\* insertion order (the order dispatch.items() yields)
cpu_dispatch == <<"lhm", "ohm_wmi", "wmi_acpi", "ps_acpi", "psutil">>
ssd_dispatch == <<"lhm", "ohm_wmi", "ps_reliability", "wmi_storage">>

Range(s) == {s[i] : i \in 1..Len(s)}

\* What the backend of a probe can answer.
CpuBackend(name) ==
    CASE name = "lhm" -> SensorOutcomes
      [] name = "ohm_wmi" -> SensorOutcomes
      [] name = "wmi_acpi" -> AcpiWmiOutcomes
      [] name = "ps_acpi" -> AcpiPsOutcomes
      [] name = "psutil" -> SensorOutcomes

SsdBackend(name) ==
    CASE name = "lhm" -> SensorOutcomes
      [] name = "ohm_wmi" -> SensorOutcomes
      [] name = "ps_reliability" -> PsFloatOutcomes
      [] name = "wmi_storage" -> StorageOutcomes

\* the functions the names of a chain stand for: the second members of
\* cpu_methods / ssd_methods and the values of the dispatch dictionaries
\* (monitor.py:166-172, 180-185, 385-391, 404-409)
cpu_funcs ==
    [n \in Range(cpu_methods) |->
        CASE n = "lhm" -> "_cpu_temp_lhm"
          [] n = "ohm_wmi" -> "_cpu_temp_ohm"
          [] n = "wmi_acpi" -> "_cpu_temp_wmi_acpi"
          [] n = "ps_acpi" -> "_cpu_temp_ps_acpi"
          [] n = "psutil" -> "_cpu_temp_psutil"]

\* ssd_funcs with the two names the chains share bound to the CPU functions
ssd_funcs_shared ==
    [n \in Range(ssd_methods) |->
        CASE n = "lhm" -> "_cpu_temp_lhm"
          [] n = "ohm_wmi" -> "_cpu_temp_ohm"
          [] n = "ps_reliability" -> "_ssd_temp_ps_reliability"
          [] n = "wmi_storage" -> "_ssd_temp_wmi_storage"]

ssd_funcs ==
    [n \in Range(ssd_methods) |->
        CASE n = "lhm" -> "_ssd_temp_lhm"
          [] n = "ohm_wmi" -> "_ssd_temp_ohm"
          [] n = "ps_reliability" -> "_ssd_temp_ps_reliability"
          [] n = "wmi_storage" -> "_ssd_temp_wmi_storage"]

\* no probe function was invoked in the step just taken
NoFn == "none"

\* val = func(): the call of a bound probe method
\* (monitor.py:174, 187, 393, 397, 411, 415)
Invoke(fn, o) ==
    CASE fn = "_cpu_temp_lhm" -> cpu_temp_lhm(o)
      [] fn = "_cpu_temp_ohm" -> cpu_temp_ohm(o)
      [] fn = "_cpu_temp_wmi_acpi" -> cpu_temp_wmi_acpi(o)
      [] fn = "_cpu_temp_ps_acpi" -> cpu_temp_ps_acpi(o)
      [] fn = "_cpu_temp_psutil" -> cpu_temp_psutil(o)
      [] fn = "_ssd_temp_lhm" -> ssd_temp_lhm(o)
      [] fn = "_ssd_temp_ohm" -> ssd_temp_ohm(o)
      [] fn = "_ssd_temp_ps_reliability" -> ssd_temp_ps_reliability(o)
      [] fn = "_ssd_temp_wmi_storage" -> ssd_temp_wmi_storage(o)

\* the probe a name of the CPU chain / of the SSD chain is bound to, invoked
CpuProbe(name, o) == Invoke(cpu_funcs[name], o)

SsdProbe(name, o) == Invoke(ssd_funcs[name], o)

Call(name, res) == [name |-> name, res |-> res]

\* a backend that is not held to an answer
Free == Out("free", 0)

\* the backends: one per probe of each chain, and psutil's utilization
\* queries
EnvKeys ==
    {<<"cpu", n>> : n \in Range(cpu_methods)}
        \cup {<<"ssd", n>> : n \in Range(ssd_methods)}
        \cup {<<"util", "psutil">>}
FreeEnv == [k \in EnvKeys |-> Free]
NoFirst == [tag |-> "none"]

\* what the backend of a probe answers at this invocation
CpuAnswers(name) ==
    IF env[<<"cpu", name>>] = Free THEN CpuBackend(name)
    ELSE {env[<<"cpu", name>>]}
SsdAnswers(name) ==
    IF env[<<"ssd", name>>] = Free THEN SsdBackend(name)
    ELSE {env[<<"ssd", name>>]}

-----------------------------------------------------------------------------
(* reporter.py: evaluate_status *)

MaxLen == 3

NoVerdict == [status |-> "none", color |-> "none"]

\* no report is being made
NoReport ==
    /\ readings = <<>>
    /\ verdict = NoVerdict

\* max(temps), for a non-empty set of numbers
Max(S) == CHOOSE x \in S : \A y \in S : y <= x

\* the sum of the cpu_percent of a list of readings
RECURSIVE SumUsage(_)
SumUsage(rs) ==
    IF rs = <<>> THEN 0 ELSE Head(rs).cpu_percent.v + SumUsage(Tail(rs))

\* evaluate_status with the critical limit itself counted as critical
evaluate_status_ge85(rs) ==
    LET temps == {rs[i].cpu_temp.v : i \in {j \in 1..Len(rs) : rs[j].cpu_temp # None}}
    IN  IF temps # {}
        THEN IF Max(temps) >= 8500 THEN [status |-> "GAGAL", color |-> "#FF0000"]
             ELSE IF Max(temps) >= 7500
             THEN [status |-> "PERINGATAN", color |-> "#FFA500"]
             ELSE [status |-> "LULUS", color |-> "#00AA00"]
        ELSE [status |-> "LULUS", color |-> "#00AA00"]

\* evaluate_status with a mean usage of exactly 95 counted as very high
evaluate_status_ge95(rs) ==
    LET temps == {rs[i].cpu_temp.v : i \in {j \in 1..Len(rs) : rs[j].cpu_temp # None}}
    IN  IF temps # {}
        THEN IF Max(temps) > 8500 THEN [status |-> "GAGAL", color |-> "#FF0000"]
             ELSE IF Max(temps) >= 7500
             THEN [status |-> "PERINGATAN", color |-> "#FFA500"]
             ELSE [status |-> "LULUS", color |-> "#00AA00"]
        ELSE IF rs # <<>> /\ SumUsage(rs) >= 9500 * Len(rs)
        THEN [status |-> "GAGAL", color |-> "#FF0000"]
        ELSE IF rs # <<>> /\ SumUsage(rs) > 8500 * Len(rs)
        THEN [status |-> "PERINGATAN", color |-> "#FFA500"]
        ELSE [status |-> "LULUS", color |-> "#00AA00"]

\* evaluate_status(readings): the status and its colour; temperatures and
\* percentages are in hundredths, and avg_usage > 95 is Sum > 95 * Len
\* (reporter.py:135-161)
evaluate_status(rs) ==
    LET temps == {rs[i].cpu_temp.v : i \in {j \in 1..Len(rs) : rs[j].cpu_temp # None}}
    IN  IF temps # {}
        THEN IF Max(temps) > 8500 THEN [status |-> "GAGAL", color |-> "#FF0000"]
             ELSE IF Max(temps) >= 7500
             THEN [status |-> "PERINGATAN", color |-> "#FFA500"]
             ELSE [status |-> "LULUS", color |-> "#00AA00"]
        ELSE IF rs # <<>> /\ SumUsage(rs) > 9500 * Len(rs)
        THEN [status |-> "GAGAL", color |-> "#FF0000"]
        ELSE IF rs # <<>> /\ SumUsage(rs) > 8500 * Len(rs)
        THEN [status |-> "PERINGATAN", color |-> "#FFA500"]
        ELSE [status |-> "LULUS", color |-> "#00AA00"]

-----------------------------------------------------------------------------
(* main.py and stress.py: values of the application *)

MaxRuns == 2
MaxReads == 2
MaxChanges == 1
MaxQueue == 2

\* min(2, ...) of start_load: the workers one call can start  (stress.py:31)
MaxWorkers == 2

Threads == 1..MaxRuns
WorkerIds == 1..(MaxWorkers * MaxRuns)

\* Scheduled callbacks that only set the status, phase and time labels or
\* the progress bar, and the message boxes, are left out.

\* entries of a thread's entry of `test_thread'
NoInfo == [temp_cpu_method |-> "", temp_ssd_method |-> ""]
\* what the collection of a run has done while _running was false: the
\* read_sensors calls it started and the readings it appended; kept until
\* the run has left its last _collect_phase
NoLate == [calls |-> 0, logged |-> 0]

NoThread ==
    [pc |-> "none", phase |-> "idle", polled |-> FALSE, system_info |-> NoInfo,
     num_workers |-> 0, loads |-> 0, idle_done |-> FALSE, late |-> NoLate]

\* texts of labels and cells
NoText == [s |-> "", v |-> 0, unit |-> ""]
Dashes == [s |-> "--", v |-> 0, unit |-> ""]
NA == [s |-> "N/A", v |-> 0, unit |-> ""]
Str(v, unit) == [s |-> "num", v |-> v, unit |-> unit]

NoPdf == [run |-> 0, cpu_m |-> "", ssd_m |-> "", status |-> ""]

\* nothing of the application exists
NoApp ==
    /\ ui = "none"
    /\ running = FALSE
    /\ btn_start = "normal"
    /\ btn_stop = "disabled"
    /\ lbl_sensor_info = <<"", "">>
    /\ metric_text = [cpu_temp |-> Dashes, ssd_temp |-> Dashes]
    /\ shown = NoReading
    /\ ui_queue = <<>>
    /\ csv = "none"
    /\ csv_rows = <<>>
    /\ taken = <<>>
    /\ test_thread = [i \in Threads |-> NoThread]
    /\ runs = 0
    /\ reads = 0
    /\ chart = "none"
    /\ report = NoPdf
    /\ s_running = FALSE
    /\ s_mode = "idle"
    /\ s_threads = {}
    /\ workers = [w \in WorkerIds |-> "none"]
    /\ changes = 0

-----------------------------------------------------------------------------
(* Construction *)

\* The import of the module begins: nothing is bound yet; LHM_READY and
\* _lhm_computer get False and None at lines 42-43.
Init ==
    /\ WMI_AVAILABLE = FALSE
    /\ LHM_READY = FALSE
    /\ lhm_computer = FALSE
    /\ wmi_ohm = FALSE
    /\ wmi_root = FALSE
    /\ wmi_storage = FALSE
    /\ cpu_method = NoMethod
    /\ ssd_method = NoMethod
    /\ pc = "import"
    /\ op = "__init__"
    /\ metric = "cpu"
    /\ kind = "detect"
    /\ idx = 0
    /\ prev = NoMethod
    /\ calls = <<>>
    /\ ret = Pending
    /\ util = NoUtil
    /\ cpu_temp = None
    /\ reading = NoReading
    /\ cpu_absent = TRUE
    /\ ssd_absent = TRUE
    /\ ticks = 0
    /\ last_raw = NoRaw
    /\ last_fn = NoFn
    /\ env = FreeEnv
    /\ first = NoFirst
    /\ NoReport
    /\ NoApp

\* try: import wmi as wmi_module ... except ImportError     (monitor.py:32-36)
import_wmi ==
    /\ pc = "import"
    /\ WMI_AVAILABLE' \in BOOLEAN
    /\ pc' = "init_lhm"
    /\ UNCHANGED <<outside, LHM_READY, lhm_computer, wmi_ohm, wmi_root,
                   wmi_storage, cpu_method, ssd_method, op, metric, kind, idx,
                   prev, calls, ret, util, cpu_temp, reading, cpu_absent,
                   ssd_absent, ticks, last_raw, last_fn>>

\* what _init_lhm_runtime meets: the DLL is not there (it returns at line
\* 58), the library loads and Computer.Open() returns, or something in the
\* try block of lines 66-85 raises
LhmLoads == {"no_dll", "loaded", "failed"}

\* _init_lhm_runtime, called once when the module is imported; then a
\* HardwareMonitor is constructed and __init__ sets its three handles and
\* two methods to None                         (monitor.py:51-94, 124-130)
init_lhm_runtime ==
    /\ pc = "init_lhm"
    /\ \E load \in LhmLoads :
          /\ lhm_computer' = (load = "loaded")
          /\ LHM_READY' = (load = "loaded")
    /\ pc' = "init_wmi"
    /\ UNCHANGED <<outside, WMI_AVAILABLE, wmi_ohm, wmi_root, wmi_storage,
                   cpu_method, ssd_method, op, metric, kind, idx, prev, calls,
                   ret, util, cpu_temp, reading, cpu_absent, ssd_absent, ticks,
                   last_raw, last_fn>>

\* _init_wmi_providers                                  (monitor.py:137-161)
init_wmi_providers ==
    /\ pc = "init_wmi"
    /\ IF ~WMI_AVAILABLE
       THEN UNCHANGED <<wmi_ohm, wmi_root, wmi_storage>>
       ELSE /\ wmi_ohm' \in BOOLEAN
            /\ wmi_root' \in BOOLEAN
            /\ wmi_storage' \in BOOLEAN
    /\ pc' = "detect_cpu"
    /\ idx' = 1
    /\ UNCHANGED <<outside, WMI_AVAILABLE, LHM_READY, lhm_computer, cpu_method,
                   ssd_method,
                   op, metric, kind, prev, calls, ret, util, cpu_temp, reading,
                   cpu_absent, ssd_absent, ticks, last_raw, last_fn>>

\* detect_cpu_step without the break: the loop goes on after a success, so
\* the last probe that answers is the one recorded.
detect_cpu_step_no_break ==
    /\ pc = "detect_cpu"
    /\ \E o \in CpuAnswers(cpu_methods[idx]) :
         LET name == cpu_methods[idx]
             val == CpuProbe(name, o)
         IN  /\ last_raw' = o
             /\ last_fn' = cpu_funcs[name]
             /\ calls' = Append(calls, Call(name, val))
             /\ cpu_absent' = (cpu_absent /\ val = None)
             /\ IF val = Raised
                THEN /\ pc' = "failed"
                     /\ ret' = Raised
                     /\ UNCHANGED <<cpu_method, idx>>
                ELSE /\ cpu_method' = IF val # None THEN name ELSE cpu_method
                     /\ IF idx < Len(cpu_methods)
                        THEN /\ idx' = idx + 1
                             /\ UNCHANGED <<pc, ret>>
                        ELSE /\ pc' = "detect_cpu_end"
                             /\ UNCHANGED <<ret, idx>>
    /\ UNCHANGED <<outside, handles, ssd_method, op, metric, kind, prev, util, cpu_temp,
                   reading, ssd_absent, ticks>>

\* for name, func in cpu_methods: val = func(); if val is not None:
\* self._cpu_method = name; break          (monitor.py:173-178)
detect_cpu_step ==
    /\ pc = "detect_cpu"
    /\ \E o \in CpuAnswers(cpu_methods[idx]) :
         LET name == cpu_methods[idx]
             val == CpuProbe(name, o)
         IN  /\ last_raw' = o
             /\ last_fn' = cpu_funcs[name]
             /\ calls' = Append(calls, Call(name, val))
             /\ cpu_absent' = (cpu_absent /\ val = None)
             /\ IF val = Raised
                THEN /\ pc' = "failed"
                     /\ ret' = Raised
                     /\ UNCHANGED <<cpu_method, idx>>
                ELSE IF val # None
                THEN /\ cpu_method' = name
                     /\ pc' = "detect_cpu_end"
                     /\ UNCHANGED <<ret, idx>>
                ELSE IF idx < Len(cpu_methods)
                THEN /\ idx' = idx + 1
                     /\ UNCHANGED <<cpu_method, pc, ret>>
                ELSE /\ pc' = "detect_cpu_end"
                     /\ UNCHANGED <<cpu_method, ret, idx>>
    /\ UNCHANGED <<outside, handles, ssd_method, op, metric, kind, prev, util, cpu_temp,
                   reading, ssd_absent, ticks>>

\* detect_ssd_begin that connects to the Storage namespace once more before
\* the SSD loop
detect_ssd_begin_reconnect ==
    /\ pc = "detect_cpu_end"
    /\ last_raw' = NoRaw
    /\ last_fn' = NoFn
    /\ pc' = "detect_ssd"
    /\ metric' = "ssd"
    /\ idx' = 1
    /\ calls' = <<>>
    /\ wmi_storage' \in BOOLEAN
    /\ UNCHANGED <<outside, WMI_AVAILABLE, LHM_READY, lhm_computer, wmi_ohm,
                   wmi_root, cpu_method, ssd_method, op, kind, prev, ret, util,
                   cpu_temp, reading, cpu_absent, ssd_absent, ticks>>

\* the CPU loop is over; ssd_methods is built and its loop entered
\* (monitor.py:180-186)
detect_ssd_begin ==
    /\ pc = "detect_cpu_end"
    /\ last_raw' = NoRaw
    /\ last_fn' = NoFn
    /\ pc' = "detect_ssd"
    /\ metric' = "ssd"
    /\ idx' = 1
    /\ calls' = <<>>
    /\ UNCHANGED <<outside, handles, cpu_method, ssd_method, op, kind, prev, ret, util,
                   cpu_temp, reading, cpu_absent, ssd_absent, ticks>>

\* for name, func in ssd_methods: ...       (monitor.py:186-191)
\* leaving the loop ends _detect_best_methods and __init__.
detect_ssd_step ==
    /\ pc = "detect_ssd"
    /\ \E o \in SsdAnswers(ssd_methods[idx]) :
         LET name == ssd_methods[idx]
             val == SsdProbe(name, o)
         IN  /\ last_raw' = o
             /\ last_fn' = ssd_funcs[name]
             /\ calls' = Append(calls, Call(name, val))
             /\ ssd_absent' = (ssd_absent /\ val = None)
             /\ IF val = Raised
                THEN /\ pc' = "failed"
                     /\ ret' = Raised
                     /\ UNCHANGED <<ssd_method, idx>>
                ELSE IF val # None
                THEN /\ ssd_method' = name
                     /\ pc' = "ready"
                     /\ UNCHANGED <<ret, idx>>
                ELSE IF idx < Len(ssd_methods)
                THEN /\ idx' = idx + 1
                     /\ UNCHANGED <<ssd_method, pc, ret>>
                ELSE /\ pc' = "ready"
                     /\ UNCHANGED <<ssd_method, ret, idx>>
    /\ UNCHANGED <<outside, handles, cpu_method, op, metric, kind, prev, util, cpu_temp,
                   reading, cpu_absent, ticks>>

-----------------------------------------------------------------------------
(* get_cpu_temperature *)

\* the sticky method is never consulted: every call sweeps the chain
CpuFastPath_never == FALSE

\* if self._cpu_method and self._cpu_method in dispatch   (monitor.py:392)
CpuFastPath == cpu_method # NoMethod /\ cpu_method \in Range(cpu_dispatch)

\* CpuGetBegin with a sweep that resumes at the selected probe's place in
\* the chain instead of starting at the first probe
CpuGetBegin_from_sticky ==
    /\ metric' = "cpu"
    /\ kind' = "get"
    /\ prev' = cpu_method
    /\ calls' = <<>>
    /\ ret' = Pending
    /\ idx' = IF CpuFastPath
              THEN CHOOSE i \in 1..Len(cpu_dispatch) :
                       cpu_dispatch[i] = cpu_method
              ELSE 1
    /\ pc' = IF CpuFastPath THEN "cpu_fast" ELSE "cpu_sweep"

\* entry of get_cpu_temperature: the dispatch is built, the sticky test
\* made, and the sweep, if it comes, starts at the first probe
\* (monitor.py:385-392, 396)
CpuGetBegin ==
    /\ metric' = "cpu"
    /\ kind' = "get"
    /\ prev' = cpu_method
    /\ calls' = <<>>
    /\ ret' = Pending
    /\ idx' = 1
    /\ pc' = IF CpuFastPath THEN "cpu_fast" ELSE "cpu_sweep"

\* get_cpu_temperature returns r (or raises, r = Raised) to its caller:
\* to the user of the monitor, or to read_sensors at monitor.py:426
CpuReturn(r) ==
    /\ ret' = r
    /\ ticks' = IF ticks < MaxTicks THEN ticks + 1 ELSE ticks
    /\ IF op = "read_sensors" /\ r # Raised
       THEN /\ pc' = "read_ssd"
            /\ cpu_temp' = r
            /\ UNCHANGED util
       ELSE /\ pc' = "ready"
            /\ cpu_temp' = None
            /\ util' = NoUtil

get_cpu_temperature ==
    /\ pc = "ready"
    /\ op' = "get_cpu_temperature"
    /\ last_raw' = NoRaw
    /\ last_fn' = NoFn
    /\ CpuGetBegin
    /\ reading' = NoReading
    /\ UNCHANGED <<outside, handles, cpu_method, ssd_method, util, cpu_temp, cpu_absent,
                   ssd_absent, ticks>>

\* cpu_fast_step that returns the sticky probe's absence instead of falling
\* through to the sweep
cpu_fast_step_no_fallthrough ==
    /\ pc = "cpu_fast"
    /\ \E o \in CpuAnswers(cpu_method) :
         LET val == CpuProbe(cpu_method, o)
         IN  /\ last_raw' = o
             /\ last_fn' = cpu_funcs[cpu_method]
             /\ calls' = Append(calls, Call(cpu_method, val))
             /\ cpu_absent' = (cpu_absent /\ val = None)
             /\ CpuReturn(val)
    /\ UNCHANGED <<outside, handles, cpu_method, ssd_method, op, metric, kind, idx, prev,
                   reading, ssd_absent>>

\* cpu_fast_step with a retry: a sticky probe that returned absence is asked
\* once more before the sweep
cpu_fast_step_retry ==
    /\ pc = "cpu_fast"
    /\ \E o \in CpuAnswers(cpu_method) :
         LET val == CpuProbe(cpu_method, o)
         IN  /\ last_raw' = o
             /\ last_fn' = cpu_funcs[cpu_method]
             /\ calls' = Append(calls, Call(cpu_method, val))
             /\ cpu_absent' = (cpu_absent /\ val = None)
             /\ IF val # None
                THEN CpuReturn(val)
                ELSE /\ pc' = IF Len(calls) = 0 THEN "cpu_fast" ELSE "cpu_sweep"
                     /\ UNCHANGED <<ret, ticks, cpu_temp, util>>
    /\ UNCHANGED <<outside, handles, cpu_method, ssd_method, op, metric, kind, idx, prev,
                   reading, ssd_absent>>

\* val = dispatch[self._cpu_method](); if val is not None: return val
\* (monitor.py:393-395)
cpu_fast_step ==
    /\ pc = "cpu_fast"
    /\ \E o \in CpuAnswers(cpu_method) :
         LET val == CpuProbe(cpu_method, o)
         IN  /\ last_raw' = o
             /\ last_fn' = cpu_funcs[cpu_method]
             /\ calls' = Append(calls, Call(cpu_method, val))
             /\ cpu_absent' = (cpu_absent /\ val = None)
             /\ IF val # None
                THEN CpuReturn(val)
                ELSE /\ pc' = "cpu_sweep"
                     /\ UNCHANGED <<ret, ticks, cpu_temp, util>>
    /\ UNCHANGED <<outside, handles, cpu_method, ssd_method, op, metric, kind, idx, prev,
                   reading, ssd_absent>>

\* the sweep records the first probe of the chain, whichever probe answered
CpuRecord_first(name) == cpu_method' = cpu_dispatch[1]

\* the sweep returns the value it found and leaves the method as it was
CpuRecord_forgotten(name) == UNCHANGED cpu_method

\* self._cpu_method = name                                (monitor.py:399)
CpuRecord(name) == cpu_method' = name

\* for name, func in dispatch.items(): val = func(); if val is not None:
\* self._cpu_method = name; return val; ...; return None  (monitor.py:396-401)
cpu_sweep_step ==
    /\ pc = "cpu_sweep"
    /\ \E o \in CpuAnswers(cpu_dispatch[idx]) :
         LET name == cpu_dispatch[idx]
             val == CpuProbe(name, o)
         IN  /\ last_raw' = o
             /\ last_fn' = cpu_funcs[name]
             /\ calls' = Append(calls, Call(name, val))
             /\ cpu_absent' = (cpu_absent /\ val = None)
             /\ IF val = Raised
                THEN /\ CpuReturn(Raised)
                     /\ UNCHANGED <<cpu_method, idx>>
                ELSE IF val # None
                THEN /\ CpuRecord(name)
                     /\ CpuReturn(val)
                     /\ UNCHANGED idx
                ELSE IF idx < Len(cpu_dispatch)
                THEN /\ idx' = idx + 1
                     /\ UNCHANGED <<cpu_method, pc, ret, ticks, cpu_temp, util>>
                ELSE /\ CpuReturn(None)
                     /\ UNCHANGED <<cpu_method, idx>>
    /\ UNCHANGED <<outside, handles, ssd_method, op, metric, kind, prev, reading,
                   ssd_absent>>

-----------------------------------------------------------------------------
(* get_ssd_temperature *)

\* the SSD sticky method is never consulted
SsdFastPath_never == FALSE

\* if self._ssd_method and self._ssd_method in dispatch   (monitor.py:410)
SsdFastPath == ssd_method # NoMethod /\ ssd_method \in Range(ssd_dispatch)

SsdGetBegin ==
    /\ metric' = "ssd"
    /\ kind' = "get"
    /\ prev' = ssd_method
    /\ calls' = <<>>
    /\ ret' = Pending
    /\ idx' = 1
    /\ pc' = IF SsdFastPath THEN "ssd_fast" ELSE "ssd_sweep"

\* get_ssd_temperature returns r (or raises, r = Raised) to its caller:
\* to the user of the monitor, or to read_sensors at monitor.py:427
SsdReturn(r) ==
    /\ ret' = r
    /\ IF op = "read_sensors" /\ r # Raised
       THEN /\ pc' = "read_ret"
            /\ UNCHANGED <<util, cpu_temp>>
       ELSE /\ pc' = "ready"
            /\ cpu_temp' = None
            /\ util' = NoUtil

get_ssd_temperature ==
    /\ pc = "ready"
    /\ op' = "get_ssd_temperature"
    /\ last_raw' = NoRaw
    /\ last_fn' = NoFn
    /\ SsdGetBegin
    /\ reading' = NoReading
    /\ UNCHANGED <<outside, handles, cpu_method, ssd_method, util, cpu_temp, cpu_absent,
                   ssd_absent, ticks>>

\* val = dispatch[self._ssd_method](); if val is not None: return val
\* (monitor.py:411-413)
ssd_fast_step ==
    /\ pc = "ssd_fast"
    /\ \E o \in SsdAnswers(ssd_method) :
         LET val == SsdProbe(ssd_method, o)
         IN  /\ last_raw' = o
             /\ last_fn' = ssd_funcs[ssd_method]
             /\ calls' = Append(calls, Call(ssd_method, val))
             /\ ssd_absent' = (ssd_absent /\ val = None)
             /\ IF val # None
                THEN SsdReturn(val)
                ELSE /\ pc' = "ssd_sweep"
                     /\ UNCHANGED <<ret, cpu_temp, util>>
    /\ UNCHANGED <<outside, handles, cpu_method, ssd_method, op, metric, kind, idx, prev,
                   reading, cpu_absent, ticks>>

\* ssd_sweep_step without the return inside the loop: the sweep records every
\* probe that answers and returns after the last probe of the chain
ssd_sweep_step_no_return ==
    /\ pc = "ssd_sweep"
    /\ \E o \in SsdAnswers(ssd_dispatch[idx]) :
         LET name == ssd_dispatch[idx]
             val == SsdProbe(name, o)
         IN  /\ last_raw' = o
             /\ last_fn' = ssd_funcs[name]
             /\ calls' = Append(calls, Call(name, val))
             /\ ssd_absent' = (ssd_absent /\ val = None)
             /\ ssd_method' = IF val # None THEN name ELSE ssd_method
             /\ IF idx < Len(ssd_dispatch)
                THEN /\ idx' = idx + 1
                     /\ UNCHANGED <<pc, ret, cpu_temp, util>>
                ELSE /\ SsdReturn(val)
                     /\ UNCHANGED idx
    /\ UNCHANGED <<outside, handles, cpu_method, op, metric, kind, prev, reading,
                   cpu_absent, ticks>>

\* for name, func in dispatch.items(): ...; return None   (monitor.py:414-419)
ssd_sweep_step ==
    /\ pc = "ssd_sweep"
    /\ \E o \in SsdAnswers(ssd_dispatch[idx]) :
         LET name == ssd_dispatch[idx]
             val == SsdProbe(name, o)
         IN  /\ last_raw' = o
             /\ last_fn' = ssd_funcs[name]
             /\ calls' = Append(calls, Call(name, val))
             /\ ssd_absent' = (ssd_absent /\ val = None)
             /\ IF val = Raised
                THEN /\ SsdReturn(Raised)
                     /\ UNCHANGED <<ssd_method, idx>>
                ELSE IF val # None
                THEN /\ ssd_method' = name
                     /\ SsdReturn(val)
                     /\ UNCHANGED idx
                ELSE IF idx < Len(ssd_dispatch)
                THEN /\ idx' = idx + 1
                     /\ UNCHANGED <<ssd_method, pc, ret, cpu_temp, util>>
                ELSE /\ SsdReturn(None)
                     /\ UNCHANGED <<ssd_method, idx>>
    /\ UNCHANGED <<outside, handles, cpu_method, op, metric, kind, prev, reading,
                   cpu_absent, ticks>>

-----------------------------------------------------------------------------
(* read_sensors *)

\* psutil.cpu_percent(interval=0.5), virtual_memory().percent and
\* disk_usage("C:\\").percent, in hundredths of a percent
UtilSamples ==
    {[cpu |-> 0, ram |-> 3127, disk |-> 10000],
     [cpu |-> 5554, ram |-> 8888, disk |-> 4]}

\* what the three utilization queries answer at this call
UtilAnswers ==
    IF env[<<"util", "psutil">>] = Free THEN UtilSamples
    ELSE {env[<<"util", "psutil">>]}

\* round(x, 1) if x is not None else None
RoundOpt(r) == IF r # None THEN Val(Round1(r.v)) ELSE None

\* the conditional of cpu_temp copied onto cpu_percent
SensorReading_conditional_percent(u, ct, st) ==
    [tag |-> "reading",
     cpu_percent |-> IF ct # None THEN Val(Round1(u.cpu)) ELSE None,
     cpu_temp |-> RoundOpt(ct),
     ram_percent |-> Val(Round1(u.ram)),
     disk_percent |-> Val(Round1(u.disk)),
     ssd_temp |-> RoundOpt(st)]

\* SensorReading(...) as read_sensors builds it            (monitor.py:429-436)
SensorReading(u, ct, st) ==
    [tag |-> "reading",
     cpu_percent |-> Val(Round1(u.cpu)),
     cpu_temp |-> RoundOpt(ct),
     ram_percent |-> Val(Round1(u.ram)),
     disk_percent |-> Val(Round1(u.disk)),
     ssd_temp |-> RoundOpt(st)]

\* timestamp and the utilization queries, then the call of
\* get_cpu_temperature                                      (monitor.py:422-426)
read_sensors ==
    /\ pc = "ready"
    /\ op' = "read_sensors"
    /\ last_raw' = NoRaw
    /\ last_fn' = NoFn
    /\ util' \in UtilAnswers
    /\ CpuGetBegin
    /\ reading' = NoReading
    /\ UNCHANGED <<outside, handles, cpu_method, ssd_method, cpu_temp, cpu_absent,
                   ssd_absent, ticks>>

\* get_cpu_temperature has returned; get_ssd_temperature is called
\* (monitor.py:427)
read_sensors_ssd ==
    /\ pc = "read_ssd"
    /\ last_raw' = NoRaw
    /\ last_fn' = NoFn
    /\ SsdGetBegin
    /\ UNCHANGED <<outside, handles, cpu_method, ssd_method, op, util, cpu_temp, reading,
                   cpu_absent, ssd_absent, ticks>>

\* both temperatures are known; the reading is built and returned
\* (monitor.py:429-436)
read_sensors_return ==
    /\ pc = "read_ret"
    /\ last_raw' = NoRaw
    /\ last_fn' = NoFn
    /\ reading' = SensorReading(util, cpu_temp, ret)
    /\ pc' = "ready"
    /\ util' = NoUtil
    /\ cpu_temp' = None
    /\ UNCHANGED <<outside, handles, cpu_method, ssd_method, op, metric, kind, idx, prev,
                   calls, ret, cpu_absent, ssd_absent, ticks>>

-----------------------------------------------------------------------------
(* get_system_info and the labels *)

\* the method slot passed on without the `or "none"`
temp_cpu_method_raw == cpu_method

\* self._cpu_method or "none" / self._ssd_method or "none" (monitor.py:461-462)
temp_cpu_method == IF cpu_method = NoMethod THEN "none" ELSE cpu_method
temp_ssd_method == IF ssd_method = NoMethod THEN "none" ELSE ssd_method

\* the labels dictionary with the entry of ps_acpi left out
cpu_labels_without_ps_acpi ==
    [n \in Range(cpu_methods) \ {"ps_acpi"} |->
        CASE n = "lhm" -> "LibreHardwareMonitor"
          [] n = "ohm_wmi" -> "OHM/LHM WMI"
          [] n = "wmi_acpi" -> "WMI ThermalZone"
          [] n = "psutil" -> "psutil"]

cpu_labels ==
    [n \in Range(cpu_methods) |->
        CASE n = "lhm" -> "LibreHardwareMonitor"
          [] n = "ohm_wmi" -> "OHM/LHM WMI"
          [] n = "wmi_acpi" -> "WMI ThermalZone"
          [] n = "ps_acpi" -> "PowerShell ACPI"
          [] n = "psutil" -> "psutil"]

ssd_labels ==
    [n \in Range(ssd_methods) |->
        CASE n = "lhm" -> "LibreHardwareMonitor"
          [] n = "ohm_wmi" -> "OHM/LHM WMI"
          [] n = "ps_reliability" -> "StorageReliability"
          [] n = "wmi_storage" -> "WMI Storage"]

\* labels.get(self._cpu_method or "", "Tidak tersedia")
cpu_method_label ==
    IF cpu_method \in DOMAIN cpu_labels THEN cpu_labels[cpu_method]
    ELSE "Tidak tersedia"

ssd_method_label ==
    IF ssd_method \in DOMAIN ssd_labels THEN ssd_labels[ssd_method]
    ELSE "Tidak tersedia"

-----------------------------------------------------------------------------
(* Specification *)

Next ==
    \/ import_wmi
    \/ init_lhm_runtime
    \/ init_wmi_providers
    \/ detect_cpu_step
    \/ detect_ssd_begin
    \/ detect_ssd_step
    \/ get_cpu_temperature
    \/ cpu_fast_step
    \/ cpu_sweep_step
    \/ get_ssd_temperature
    \/ ssd_fast_step
    \/ ssd_sweep_step
    \/ read_sensors
    \/ read_sensors_ssd
    \/ read_sensors_return

Spec == Init /\ [][Next]_vars

-----------------------------------------------------------------------------
(* Two monitors in front of the same backends *)

\* a monitor can only have selected a probe whose backend it connected to
Selectable(m) ==
    CASE m = "lhm" -> LHM_READY
      [] m = "ohm_wmi" -> wmi_ohm
      [] m = "wmi_acpi" -> wmi_root
      [] OTHER -> TRUE

\* the answers a backend is held to while the monitors are compared
DetAnswers(name) ==
    CASE name \in {"lhm", "ohm_wmi", "psutil"} ->
            {Out("missing", 0), Out("num", 4230), Out("num", 5000)}
      [] name = "wmi_acpi" -> {Out("missing", 0), Out("num", 3155)}
      [] name = "ps_acpi" ->
            {Out("missing", 0), Out("huge", 0), Out("num", 3155)}

DetEnvs ==
    {[k \in EnvKeys |-> IF k[1] = "cpu" THEN c[k[2]] ELSE Free] :
        c \in {e \in [Range(cpu_methods) ->
                         UNION {DetAnswers(n) : n \in Range(cpu_methods)}] :
                  \A n \in Range(cpu_methods) :
                      e[n] \in DetAnswers(n) \cap CpuBackend(n)}}

\* a constructed monitor with any method selected, in front of backends
\* whose answers are fixed
InitDet ==
    /\ WMI_AVAILABLE \in BOOLEAN
    /\ LHM_READY \in BOOLEAN
    /\ lhm_computer = LHM_READY
    /\ wmi_ohm = WMI_AVAILABLE
    /\ wmi_root = WMI_AVAILABLE
    /\ wmi_storage = WMI_AVAILABLE
    /\ cpu_method \in {m \in Range(cpu_methods) \cup {NoMethod} : Selectable(m)}
    /\ ssd_method = NoMethod
    /\ pc = "ready"
    /\ op = "__init__"
    /\ metric = "ssd"
    /\ kind = "detect"
    /\ idx = 1
    /\ prev = NoMethod
    /\ calls = <<>>
    /\ ret = Pending
    /\ util = NoUtil
    /\ cpu_temp = None
    /\ reading = NoReading
    /\ cpu_absent = FALSE
    /\ ssd_absent = TRUE
    /\ ticks = 0
    /\ last_raw = NoRaw
    /\ last_fn = NoFn
    /\ env \in DetEnvs
    /\ first = NoFirst
    /\ NoReport
    /\ NoApp

\* the read of the first monitor is over; a second monitor, with its own
\* _cpu_method, takes its place in front of the same backends
det_switch ==
    /\ pc = "ready"
    /\ kind = "get"
    /\ metric = "cpu"
    /\ ret # Pending
    /\ first = NoFirst
    /\ first' = [tag |-> "first", prev |-> prev, ret |-> ret,
                 method |-> cpu_method,
                 swept |-> (prev = NoMethod \/ calls[1].res = None)]
    /\ cpu_method' \in {m \in Range(cpu_methods) \cup {NoMethod} : Selectable(m)}
    /\ calls' = <<>>
    /\ ret' = Pending
    /\ last_raw' = NoRaw
    /\ last_fn' = NoFn
    /\ UNCHANGED <<env, handles, ssd_method, pc, op, metric, kind, idx, prev,
                   util, cpu_temp, reading, cpu_absent, ssd_absent, ticks,
                   readings, verdict, appvars>>

NextDet ==
    \/ get_cpu_temperature
    \/ cpu_fast_step
    \/ cpu_sweep_step
    \/ det_switch

SpecDet == InitDet /\ [][NextDet]_vars

-----------------------------------------------------------------------------
(* evaluate_status applied to lists of readings *)

\* CPU temperatures around the two limits, and CPU usages around the two
\* usage limits
EvalTemps == {None, Val(7490), Val(7500), Val(8500), Val(8510)}
EvalUsages == {5000, 8500, 9000, 9500, 9600}

EvalReadings ==
    {SensorReading([cpu |-> c, ram |-> 3127, disk |-> 4], ct, None) :
        c \in EvalUsages, ct \in EvalTemps}

EvalInputs == UNION {[1..n -> EvalReadings] : n \in 0..MaxLen}

InitEval ==
    /\ WMI_AVAILABLE = FALSE
    /\ LHM_READY = FALSE
    /\ lhm_computer = FALSE
    /\ wmi_ohm = FALSE
    /\ wmi_root = FALSE
    /\ wmi_storage = FALSE
    /\ cpu_method = NoMethod
    /\ ssd_method = NoMethod
    /\ pc = "ready"
    /\ op = "__init__"
    /\ metric = "ssd"
    /\ kind = "detect"
    /\ idx = 1
    /\ prev = NoMethod
    /\ calls = <<>>
    /\ ret = Pending
    /\ util = NoUtil
    /\ cpu_temp = None
    /\ reading = NoReading
    /\ cpu_absent = TRUE
    /\ ssd_absent = TRUE
    /\ ticks = 0
    /\ last_raw = NoRaw
    /\ last_fn = NoFn
    /\ env = FreeEnv
    /\ first = NoFirst
    /\ readings \in EvalInputs
    /\ verdict = NoVerdict
    /\ NoApp

\* status, color, desc = evaluate_status(readings)
evaluate ==
    /\ verdict = NoVerdict
    /\ verdict' = evaluate_status(readings)
    /\ UNCHANGED <<handles, cpu_method, ssd_method, pc, op, metric, kind, idx,
                   prev, calls, ret, util, cpu_temp, reading, cpu_absent,
                   ssd_absent, ticks, last_raw, last_fn, env, first, readings,
                   appvars>>

NextEval == evaluate

SpecEval == InitEval /\ [][NextEval]_vars

-----------------------------------------------------------------------------
(* main.py and stress.py: the application *)

\* the machine when the application starts: every sensor of it answers,
\* or none does
AppEnv(sensors) ==
    [k \in EnvKeys |->
        CASE k = <<"util", "psutil">> -> [cpu |-> 5554, ram |-> 8888, disk |-> 4]
          [] sensors /\ k = <<"cpu", "lhm">> -> Out("num", 4230)
          [] sensors /\ k = <<"cpu", "psutil">> -> Out("num", 8510)
          [] sensors /\ k = <<"ssd", "lhm">> -> Out("num", 4230)
          [] OTHER -> Out("missing", 0)]

AppEnvs == {AppEnv(TRUE), AppEnv(FALSE)}

\* main() has created the Tk root and IDMTestApp.__init__ is at
\* self.monitor = HardwareMonitor()                        (main.py:66-75)
InitApp ==
    /\ WMI_AVAILABLE = FALSE
    /\ LHM_READY = TRUE
    /\ lhm_computer = TRUE
    /\ wmi_ohm = FALSE
    /\ wmi_root = FALSE
    /\ wmi_storage = FALSE
    /\ cpu_method = NoMethod
    /\ ssd_method = NoMethod
    /\ pc = "init_wmi"
    /\ op = "__init__"
    /\ metric = "cpu"
    /\ kind = "detect"
    /\ idx = 1
    /\ prev = NoMethod
    /\ calls = <<>>
    /\ ret = Pending
    /\ util = NoUtil
    /\ cpu_temp = None
    /\ reading = NoReading
    /\ cpu_absent = TRUE
    /\ ssd_absent = TRUE
    /\ ticks = 0
    /\ last_raw = NoRaw
    /\ last_fn = NoFn
    /\ env \in AppEnvs
    /\ first = NoFirst
    /\ readings = <<>>
    /\ verdict = NoVerdict
    /\ ui = "init"
    /\ running = FALSE
    /\ btn_start = "normal"
    /\ btn_stop = "disabled"
    /\ lbl_sensor_info = <<"", "">>
    /\ metric_text = [cpu_temp |-> Dashes, ssd_temp |-> Dashes]
    /\ shown = NoReading
    /\ ui_queue = <<>>
    /\ csv = "none"
    /\ csv_rows = <<>>
    /\ taken = <<>>
    /\ test_thread = [i \in Threads |-> NoThread]
    /\ runs = 0
    /\ reads = 0
    /\ chart = "none"
    /\ report = NoPdf
    /\ s_running = FALSE
    /\ s_mode = "idle"
    /\ s_threads = {}
    /\ workers = [w \in WorkerIds |-> "none"]
    /\ changes = 0

\* No call of the monitor is in progress.  The steps of a read_sensors call
\* touch the monitor only, and only the calling thread touches the monitor
\* then, so the other threads are left to act before and after the call.
monitor_idle == pc = "ready"

\* what happens to the backends while the application runs: the LHM CPU
\* sensor stops answering, or the ACPI helper prints a huge integer
AppChanges ==
    {[k |-> <<"cpu", "lhm">>, a |-> Out("missing", 0)],
     [k |-> <<"cpu", "ps_acpi">>, a |-> Out("huge", 0)]}

backend_change ==
    /\ changes < MaxChanges
    /\ ui # "init"
    /\ monitor_idle
    /\ changes' = changes + 1
    /\ \E c \in AppChanges :
          /\ env[c.k] # c.a
          /\ env' = [env EXCEPT ![c.k] = c.a]
    /\ UNCHANGED <<handles,
                   cpu_method, ssd_method, pc, op, metric, kind, idx, prev,
                   calls, ret, util, cpu_temp, reading, cpu_absent,
                   ssd_absent, ticks, last_raw, last_fn, first, readings, verdict, ui,
                   running, btn_start, btn_stop, lbl_sensor_info,
                   metric_text, shown, ui_queue, csv, csv_rows, taken,
                   test_thread, runs, reads, chart, report, s_running,
                   s_mode, s_threads, workers>>

-----------------------------------------------------------------------------
(* the UI thread *)

\* self.root.after(0, fn)                                  (main.py:357-361)
schedule(fns) == ui_queue' = ui_queue \o fns

update_metrics_cb(r) == [fn |-> "_update_metrics", r |-> r, state |-> ""]
btn_start_cb(state) == [fn |-> "btn_start", r |-> NoReading, state |-> state]
btn_stop_cb(state) == [fn |-> "btn_stop", r |-> NoReading, state |-> state]

\* cpu_m = self.monitor.cpu_method_label; ssd_m = ...      (main.py:224-231)
show_sensor_status == <<cpu_method_label, ssd_method_label>>

\* the rest of IDMTestApp.__init__ once HardwareMonitor() has returned:
\* the engine, the fields, the widgets and _show_sensor_status()
\* (main.py:76-83)
app_init ==
    /\ ui = "init"
    /\ monitor_idle
    /\ lbl_sensor_info' = show_sensor_status
    /\ ui' = "idle"
    /\ UNCHANGED <<handles,
                   cpu_method, ssd_method, pc, op, metric, kind, idx, prev,
                   calls, ret, util, cpu_temp, reading, cpu_absent,
                   ssd_absent, ticks, last_raw, last_fn, env, first, readings,
                   verdict, running, btn_start, btn_stop, metric_text, shown,
                   ui_queue, csv, csv_rows, taken, test_thread, runs, reads,
                   chart, report, s_running, s_mode, s_threads, workers,
                   changes>>

\* _on_start run whatever the state of the Start button
on_start_any_time ==
    /\ ui = "idle"
    /\ monitor_idle
    /\ runs < MaxRuns
    /\ readings' = <<>>
    /\ taken' = <<>>
    /\ running' = TRUE
    /\ btn_start' = "disabled"
    /\ btn_stop' = "normal"
    /\ runs' = runs + 1
    /\ chart' = "none"
    /\ report' = NoPdf
    /\ test_thread' = [test_thread EXCEPT ![runs + 1] = [NoThread EXCEPT !.pc = "csv"]]
    /\ UNCHANGED <<handles,
                   cpu_method, ssd_method, pc, op, metric, kind, idx, prev,
                   calls, ret, util, cpu_temp, reading, cpu_absent,
                   ssd_absent, ticks, last_raw, last_fn, env, first, verdict, ui,
                   lbl_sensor_info, metric_text, shown, ui_queue, csv,
                   csv_rows, reads, s_running, s_mode, s_threads, workers,
                   changes>>

\* _on_start without self.readings.clear()
on_start_no_clear ==
    /\ ui = "idle"
    /\ monitor_idle
    /\ btn_start = "normal"
    /\ runs < MaxRuns
    /\ running' = TRUE
    /\ btn_start' = "disabled"
    /\ btn_stop' = "normal"
    /\ runs' = runs + 1
    /\ chart' = "none"
    /\ report' = NoPdf
    /\ test_thread' = [test_thread EXCEPT ![runs + 1] = [NoThread EXCEPT !.pc = "csv"]]
    /\ UNCHANGED <<handles,
                   cpu_method, ssd_method, pc, op, metric, kind, idx, prev,
                   calls, ret, util, cpu_temp, reading, cpu_absent,
                   ssd_absent, ticks, last_raw, last_fn, env, first, readings, taken,
                   verdict, ui,
                   lbl_sensor_info, metric_text, shown, ui_queue, csv,
                   csv_rows, reads, s_running, s_mode, s_threads, workers,
                   changes>>

\* _on_start                                               (main.py:235-245)
on_start ==
    /\ ui = "idle"
    /\ monitor_idle
    /\ btn_start = "normal"
    /\ runs < MaxRuns
    /\ readings' = <<>>
    /\ taken' = <<>>
    /\ running' = TRUE
    /\ btn_start' = "disabled"
    /\ btn_stop' = "normal"
    /\ runs' = runs + 1
    /\ chart' = "none"
    /\ report' = NoPdf
    /\ test_thread' = [test_thread EXCEPT ![runs + 1] = [NoThread EXCEPT !.pc = "csv"]]
    /\ UNCHANGED <<handles,
                   cpu_method, ssd_method, pc, op, metric, kind, idx, prev,
                   calls, ret, util, cpu_temp, reading, cpu_absent,
                   ssd_absent, ticks, last_raw, last_fn, env, first, verdict, ui,
                   lbl_sensor_info, metric_text, shown, ui_queue, csv,
                   csv_rows, reads, s_running, s_mode, s_threads, workers,
                   changes>>

\* self._running = False, then the call of self.stress.stop()
\* (main.py:247-249)
on_stop ==
    /\ ui = "idle"
    /\ monitor_idle
    /\ btn_stop = "normal"
    /\ running' = FALSE
    /\ ui' = "stop_flag"
    /\ UNCHANGED <<handles,
                   cpu_method, ssd_method, pc, op, metric, kind, idx, prev,
                   calls, ret, util, cpu_temp, reading, cpu_absent,
                   ssd_absent, ticks, last_raw, last_fn, env, first, readings,
                   verdict, btn_start, btn_stop, lbl_sensor_info,
                   metric_text, shown, ui_queue, csv, csv_rows, taken,
                   test_thread, runs, reads, chart, report, s_running,
                   s_mode, s_threads, workers, changes>>

\* StressEngine.stop: self._running = False; self._mode = "idle"
\* (stress.py:48-50)
stop_flag ==
    /\ s_running' = FALSE
    /\ s_mode' = "idle"

\* for t in self._threads: t.join(timeout=2) is over.  A worker looks at
\* the flag every half second, so the join ends by the worker's exit.
\* (stress.py:51-52)
stop_joined == \A w \in s_threads : workers[w] # "alive"

\* self._threads.clear()                                     (stress.py:53)
stop_clear == s_threads' = {}

ui_stop_flag ==
    /\ ui = "stop_flag"
    /\ monitor_idle
    /\ stop_flag
    /\ ui' = "stop_join"
    /\ UNCHANGED <<handles,
                   cpu_method, ssd_method, pc, op, metric, kind, idx, prev,
                   calls, ret, util, cpu_temp, reading, cpu_absent,
                   ssd_absent, ticks, last_raw, last_fn, env, first, readings,
                   verdict, running, btn_start, btn_stop, lbl_sensor_info,
                   metric_text, shown, ui_queue, csv, csv_rows, taken,
                   test_thread, runs, reads, chart, report, s_threads,
                   workers, changes>>

ui_stop_join ==
    /\ ui = "stop_join"
    /\ monitor_idle
    /\ stop_joined
    /\ ui' = "stop_clear"
    /\ UNCHANGED <<handles,
                   cpu_method, ssd_method, pc, op, metric, kind, idx, prev,
                   calls, ret, util, cpu_temp, reading, cpu_absent,
                   ssd_absent, ticks, last_raw, last_fn, env, first, readings,
                   verdict, running, btn_start, btn_stop, lbl_sensor_info,
                   metric_text, shown, ui_queue, csv, csv_rows, taken,
                   test_thread, runs, reads, chart, report, s_running,
                   s_mode, s_threads, workers, changes>>

ui_stop_clear ==
    /\ ui = "stop_clear"
    /\ monitor_idle
    /\ stop_clear
    /\ ui' = "idle"
    /\ UNCHANGED <<handles,
                   cpu_method, ssd_method, pc, op, metric, kind, idx, prev,
                   calls, ret, util, cpu_temp, reading, cpu_absent,
                   ssd_absent, ticks, last_raw, last_fn, env, first, readings,
                   verdict, running, btn_start, btn_stop, lbl_sensor_info,
                   metric_text, shown, ui_queue, csv, csv_rows, taken,
                   test_thread, runs, reads, chart, report, s_running,
                   s_mode, workers, changes>>

\* _update_metrics, for the two temperature labels         (main.py:369-375)
update_metrics(r) ==
    [cpu_temp |-> IF r.cpu_temp # None THEN Str(r.cpu_temp.v, "C") ELSE NA,
     ssd_temp |-> IF r.ssd_temp # None THEN Str(r.ssd_temp.v, "C") ELSE NA]

\* the event loop runs the callback scheduled first
ui_callback ==
    /\ ui = "idle"
    /\ monitor_idle
    /\ ui_queue # <<>>
    /\ ui_queue' = Tail(ui_queue)
    /\ LET cb == Head(ui_queue)
       IN  /\ IF cb.fn = "_update_metrics"
              THEN /\ metric_text' = update_metrics(cb.r)
                   /\ shown' = cb.r
              ELSE UNCHANGED <<metric_text, shown>>
           /\ btn_start' = IF cb.fn = "btn_start" THEN cb.state ELSE btn_start
           /\ btn_stop' = IF cb.fn = "btn_stop" THEN cb.state ELSE btn_stop
    /\ UNCHANGED <<handles,
                   cpu_method, ssd_method, pc, op, metric, kind, idx, prev,
                   calls, ret, util, cpu_temp, reading, cpu_absent,
                   ssd_absent, ticks, last_raw, last_fn, env, first, readings,
                   verdict, ui, running, lbl_sensor_info, csv, csv_rows,
                   taken, test_thread, runs, reads, chart, report, s_running,
                   s_mode, s_threads, workers, changes>>

-----------------------------------------------------------------------------
(* the test thread: _run_test *)

at(i, where) == test_thread[i].pc = where
goto(i, where) == test_thread' = [test_thread EXCEPT ![i].pc = where]

\* self.csv_logger = CSVLogger(): the file is opened for writing, or the
\* open fails and the run goes to _finish_test            (main.py:258-264)
run_test_csv(i) ==
    /\ at(i, "csv")
    /\ \/ /\ csv' = "open"
          /\ csv_rows' = <<>>
          /\ goto(i, "info")
       \/ /\ goto(i, "finish")
          /\ UNCHANGED <<csv, csv_rows>>
    /\ UNCHANGED <<handles,
                   cpu_method, ssd_method, pc, op, metric, kind, idx, prev,
                   calls, ret, util, cpu_temp, reading, cpu_absent,
                   ssd_absent, ticks, last_raw, last_fn, env, first, readings,
                   verdict, ui, running, btn_start, btn_stop,
                   lbl_sensor_info, metric_text, shown, ui_queue, taken,
                   runs, reads, chart, report, s_running, s_mode, s_threads,
                   workers, changes>>

\* the two method fields of get_system_info()             (monitor.py:461-462)
get_system_info ==
    [temp_cpu_method |-> temp_cpu_method, temp_ssd_method |-> temp_ssd_method]

\* system_info = self.monitor.get_system_info()               (main.py:266)
run_test_info(i) ==
    /\ at(i, "info")
    /\ test_thread' = [test_thread EXCEPT ![i].system_info = get_system_info,
                      ![i].pc = "start_idle"]
    /\ UNCHANGED <<handles,
                   cpu_method, ssd_method, pc, op, metric, kind, idx, prev,
                   calls, ret, util, cpu_temp, reading, cpu_absent,
                   ssd_absent, ticks, last_raw, last_fn, env, first, readings,
                   verdict, ui, running, btn_start, btn_stop,
                   lbl_sensor_info, metric_text, shown, ui_queue, csv,
                   csv_rows, taken, runs, reads, chart, report, s_running,
                   s_mode, s_threads, workers, changes>>

\* self.stress.start_idle() and the entry of the idle _collect_phase
\* (main.py:272-273, stress.py:23-24)
run_test_start_idle(i) ==
    /\ at(i, "start_idle")
    /\ s_mode' = "idle"
    /\ test_thread' = [test_thread EXCEPT ![i].phase = "idle", ![i].polled = FALSE,
                                        ![i].pc = "loop"]
    /\ UNCHANGED <<handles,
                   cpu_method, ssd_method, pc, op, metric, kind, idx, prev,
                   calls, ret, util, cpu_temp, reading, cpu_absent,
                   ssd_absent, ticks, last_raw, last_fn, env, first, readings,
                   verdict, ui, running, btn_start, btn_stop,
                   lbl_sensor_info, metric_text, shown, ui_queue, csv,
                   csv_rows, taken, runs, reads, chart, report, s_running,
                   s_threads, workers, changes>>

\* where _run_test goes on when _collect_phase returns True / False
\* (main.py:273-284)
after_phase(i, completed) ==
    IF test_thread[i].phase = "idle"
    THEN IF completed THEN "start_load" ELSE "finalize"
    ELSE "stop_flag"

\* while time.monotonic() - start < phase_seconds: the first test finds the
\* window open; a later one finds it open or closed      (main.py:289, 308)
collect_loop(i) ==
    /\ at(i, "loop")
    /\ \/ /\ reads < MaxReads
          /\ goto(i, "check")
       \/ /\ test_thread[i].polled
          /\ test_thread' = [test_thread EXCEPT ![i].pc = after_phase(i, TRUE),
                            ![i].late = IF after_phase(i, TRUE) = "start_load"
                                        THEN @ ELSE NoLate,
                            ![i].idle_done = (@ \/ test_thread[i].phase = "idle")]
    /\ UNCHANGED <<handles,
                   cpu_method, ssd_method, pc, op, metric, kind, idx, prev,
                   calls, ret, util, cpu_temp, reading, cpu_absent,
                   ssd_absent, ticks, last_raw, last_fn, env, first, readings,
                   verdict, ui, running, btn_start, btn_stop,
                   lbl_sensor_info, metric_text, shown, ui_queue, csv,
                   csv_rows, taken, runs, reads, chart, report, s_running,
                   s_mode, s_threads, workers, changes>>

\* collect_check of a loop that never looks at self._running
collect_check_unconditional(i) ==
    /\ at(i, "check")
    /\ goto(i, "read_call")
    /\ UNCHANGED <<handles,
                   cpu_method, ssd_method, pc, op, metric, kind, idx, prev,
                   calls, ret, util, cpu_temp, reading, cpu_absent,
                   ssd_absent, ticks, last_raw, last_fn, env, first, readings,
                   verdict, ui, running, btn_start, btn_stop,
                   lbl_sensor_info, metric_text, shown, ui_queue, csv,
                   csv_rows, taken, runs, reads, chart, report, s_running,
                   s_mode, s_threads, workers, changes>>

\* if not self._running: return False                     (main.py:290-291)
collect_check(i) ==
    /\ at(i, "check")
    /\ IF running THEN goto(i, "read_call")
       ELSE test_thread' = [test_thread EXCEPT ![i].pc = after_phase(i, FALSE),
                                               ![i].late = NoLate]
    /\ UNCHANGED <<handles,
                   cpu_method, ssd_method, pc, op, metric, kind, idx, prev,
                   calls, ret, util, cpu_temp, reading, cpu_absent,
                   ssd_absent, ticks, last_raw, last_fn, env, first, readings,
                   verdict, ui, running, btn_start, btn_stop,
                   lbl_sensor_info, metric_text, shown, ui_queue, csv,
                   csv_rows, taken, runs, reads, chart, report, s_running,
                   s_mode, s_threads, workers, changes>>

\* reading = self.monitor.read_sensors(): the call is made, nothing has
\* been returned                                               (main.py:293)
collect_read_call(i) ==
    /\ at(i, "read_call")
    /\ monitor_idle
    /\ test_thread' = [test_thread EXCEPT ![i].pc = "in_read",
                      ![i].late.calls = IF running THEN @ ELSE @ + 1]
    /\ reads' = reads + 1
    /\ reading' = NoReading
    /\ ret' = Pending
    /\ UNCHANGED <<handles,
                   cpu_method, ssd_method, pc, op, metric, kind, idx, prev,
                   calls, util, cpu_temp, cpu_absent, ssd_absent, ticks,
                   last_raw, last_fn, env, first, readings, verdict, ui, running,
                   btn_start, btn_stop, lbl_sensor_info, metric_text, shown,
                   ui_queue, csv, csv_rows, taken, runs, chart, report,
                   s_running, s_mode, s_threads, workers, changes>>

\* read_sensors() as called by the test thread
app_read_sensors ==
    /\ \E i \in Threads : at(i, "in_read")
    /\ reading = NoReading
    /\ ret = Pending
    /\ read_sensors

\* csv_row without the conditionals: the temperatures written as they are
csv_row_unconditional(r) ==
    [cpu_percent |-> Str(r.cpu_percent.v, ""),
     cpu_temp |-> Str(r.cpu_temp.v, ""),
     ram_percent |-> Str(r.ram_percent.v, ""),
     disk_percent |-> Str(r.disk_percent.v, ""),
     ssd_temp |-> Str(r.ssd_temp.v, "")]

\* the row CSVLogger.write writes, without the timestamp (reporter.py:47-56)
csv_row(r) ==
    [cpu_percent |-> Str(r.cpu_percent.v, ""),
     cpu_temp |-> IF r.cpu_temp # None THEN Str(r.cpu_temp.v, "") ELSE NA,
     ram_percent |-> Str(r.ram_percent.v, ""),
     disk_percent |-> Str(r.disk_percent.v, ""),
     ssd_temp |-> IF r.ssd_temp # None THEN Str(r.ssd_temp.v, "") ELSE NA]

\* read_sensors() has returned: the reading is appended, written and its
\* display scheduled; then time.sleep(POLL_INTERVAL_SEC)   (main.py:293-307)
collect_log(i) ==
    /\ at(i, "in_read")
    /\ monitor_idle
    /\ reading # NoReading
    /\ Len(ui_queue) < MaxQueue
    /\ readings' = Append(readings, reading)
    /\ taken' = Append(taken, [run |-> i, phase |-> test_thread[i].phase])
    /\ csv_rows' = Append(csv_rows, csv_row(reading))
    /\ schedule(<<update_metrics_cb(reading)>>)
    /\ test_thread' = [test_thread EXCEPT ![i].polled = TRUE, ![i].pc = "loop",
                      ![i].late.logged = IF running THEN @ ELSE @ + 1]
    /\ UNCHANGED <<handles,
                   cpu_method, ssd_method, pc, op, metric, kind, idx, prev,
                   calls, ret, util, cpu_temp, reading, cpu_absent,
                   ssd_absent, ticks, last_raw, last_fn, env, first, verdict, ui,
                   running, btn_start, btn_stop, lbl_sensor_info,
                   metric_text, shown, csv, runs, reads, chart, report,
                   s_running, s_mode, s_threads, workers, changes>>

\* read_sensors() has raised: the exception leaves _collect_phase and
\* _run_test, and the thread ends
collect_raise(i) ==
    /\ at(i, "in_read")
    /\ monitor_idle
    /\ ret = Raised
    /\ test_thread' = [test_thread EXCEPT ![i] = [NoThread EXCEPT !.pc = "dead"]]
    /\ UNCHANGED <<handles,
                   cpu_method, ssd_method, pc, op, metric, kind, idx, prev,
                   calls, ret, util, cpu_temp, reading, cpu_absent,
                   ssd_absent, ticks, last_raw, last_fn, env, first, readings,
                   verdict, ui, running, btn_start, btn_stop,
                   lbl_sensor_info, metric_text, shown, ui_queue, csv,
                   csv_rows, taken, runs, reads, chart, report, s_running,
                   s_mode, s_threads, workers, changes>>

\* psutil.cpu_count(logical=False): None (here 0) or a count
CoreCounts == {0, 1, 2, 4}

\* num_workers without the min(2, ...): one worker per physical core
num_workers_per_core(count) == IF count = 0 THEN 2 ELSE count

\* max(1, min(2, psutil.cpu_count(logical=False) or 2))      (stress.py:31)
num_workers(count) ==
    LET c == IF count = 0 THEN 2 ELSE count
        m == IF c < 2 THEN c ELSE 2
    IN  IF m > 1 THEN m ELSE 1

\* StressEngine.start_load up to the loop: the mode, the flag and the
\* number of workers                                      (stress.py:26-31)
start_load(i) ==
    /\ at(i, "start_load")
    /\ s_mode' = "load"
    /\ s_running' = TRUE
    /\ \E count \in CoreCounts :
          test_thread' = [test_thread EXCEPT ![i].num_workers = num_workers(count),
                         ![i].loads = @ + 1,
                         ![i].phase = "load",
                         ![i].polled = FALSE,
                         ![i].pc = "spawn"]
    /\ UNCHANGED <<handles,
                   cpu_method, ssd_method, pc, op, metric, kind, idx, prev,
                   calls, ret, util, cpu_temp, reading, cpu_absent,
                   ssd_absent, ticks, last_raw, last_fn, env, first, readings,
                   verdict, ui, running, btn_start, btn_stop,
                   lbl_sensor_info, metric_text, shown, ui_queue, csv,
                   csv_rows, taken, runs, reads, chart, report, s_threads,
                   workers, changes>>

\* one turn of the loop of start_load: a worker thread is started and
\* appended to the list; after the last one the load _collect_phase is
\* entered                                                (stress.py:33-36)
start_load_spawn(i) ==
    /\ at(i, "spawn")
    /\ \E w \in WorkerIds :
          /\ workers[w] = "none"
          /\ w \notin s_threads
          /\ \A v \in WorkerIds :
                v < w => workers[v] # "none" \/ v \in s_threads
          /\ workers' = [workers EXCEPT ![w] = "alive"]
          /\ s_threads' = s_threads \cup {w}
    /\ test_thread' = [test_thread EXCEPT ![i].num_workers = @ - 1,
                      ![i].pc = IF test_thread[i].num_workers = 1 THEN "loop" ELSE "spawn"]
    /\ UNCHANGED <<handles,
                   cpu_method, ssd_method, pc, op, metric, kind, idx, prev,
                   calls, ret, util, cpu_temp, reading, cpu_absent,
                   ssd_absent, ticks, last_raw, last_fn, env, first, readings,
                   verdict, ui, running, btn_start, btn_stop,
                   lbl_sensor_info, metric_text, shown, ui_queue, csv,
                   csv_rows, taken, runs, reads, chart, report, s_running,
                   s_mode, changes>>

\* _worker: while self._running is found false and the thread ends
\* (stress.py:38-46)
worker_exit(w) ==
    /\ workers[w] = "alive"
    /\ monitor_idle
    /\ ~s_running
    /\ workers' = [workers EXCEPT ![w] = "none"]
    /\ UNCHANGED <<handles,
                   cpu_method, ssd_method, pc, op, metric, kind, idx, prev,
                   calls, ret, util, cpu_temp, reading, cpu_absent,
                   ssd_absent, ticks, last_raw, last_fn, env, first, readings,
                   verdict, ui, running, btn_start, btn_stop,
                   lbl_sensor_info, metric_text, shown, ui_queue, csv,
                   csv_rows, taken, test_thread, runs, reads, chart, report,
                   s_running, s_mode, s_threads, changes>>

\* self.stress.stop() of _run_test                            (main.py:282)
run_test_stop_flag(i) ==
    /\ at(i, "stop_flag")
    /\ stop_flag
    /\ goto(i, "stop_join")
    /\ UNCHANGED <<handles,
                   cpu_method, ssd_method, pc, op, metric, kind, idx, prev,
                   calls, ret, util, cpu_temp, reading, cpu_absent,
                   ssd_absent, ticks, last_raw, last_fn, env, first, readings,
                   verdict, ui, running, btn_start, btn_stop,
                   lbl_sensor_info, metric_text, shown, ui_queue, csv,
                   csv_rows, taken, runs, reads, chart, report, s_threads,
                   workers, changes>>

run_test_stop_join(i) ==
    /\ at(i, "stop_join")
    /\ stop_joined
    /\ goto(i, "stop_clear")
    /\ UNCHANGED <<handles,
                   cpu_method, ssd_method, pc, op, metric, kind, idx, prev,
                   calls, ret, util, cpu_temp, reading, cpu_absent,
                   ssd_absent, ticks, last_raw, last_fn, env, first, readings,
                   verdict, ui, running, btn_start, btn_stop,
                   lbl_sensor_info, metric_text, shown, ui_queue, csv,
                   csv_rows, taken, runs, reads, chart, report, s_running,
                   s_mode, s_threads, workers, changes>>

run_test_stop_clear(i) ==
    /\ at(i, "stop_clear")
    /\ stop_clear
    /\ goto(i, "finalize")
    /\ UNCHANGED <<handles,
                   cpu_method, ssd_method, pc, op, metric, kind, idx, prev,
                   calls, ret, util, cpu_temp, reading, cpu_absent,
                   ssd_absent, ticks, last_raw, last_fn, env, first, readings,
                   verdict, ui, running, btn_start, btn_stop,
                   lbl_sensor_info, metric_text, shown, ui_queue, csv,
                   csv_rows, taken, runs, reads, chart, report, s_running,
                   s_mode, workers, changes>>

\* _finalize: the CSV file is closed, or close() raises and the exception
\* is swallowed; then the test of self.readings            (main.py:310-319)
finalize_close(i) ==
    /\ at(i, "finalize")
    /\ csv' \in {"closed", "close_failed"}
    /\ goto(i, IF readings # <<>> THEN "chart" ELSE "finish")
    /\ UNCHANGED <<handles,
                   cpu_method, ssd_method, pc, op, metric, kind, idx, prev,
                   calls, ret, util, cpu_temp, reading, cpu_absent,
                   ssd_absent, ticks, last_raw, last_fn, env, first, readings,
                   verdict, ui, running, btn_start, btn_stop,
                   lbl_sensor_info, metric_text, shown, ui_queue, csv_rows,
                   taken, runs, reads, chart, report, s_running, s_mode,
                   s_threads, workers, changes>>

\* the labels of the report's method line
method_labels ==
    [m \in {"lhm", "ohm_wmi", "wmi_acpi", "ps_acpi", "psutil",
            "ps_reliability", "wmi_storage", "none"} |->
        CASE m = "lhm" -> "LibreHardwareMonitor"
          [] m = "ohm_wmi" -> "OHM/LHM WMI"
          [] m = "wmi_acpi" -> "WMI ThermalZone"
          [] m = "ps_acpi" -> "PowerShell ACPI"
          [] m = "psutil" -> "psutil"
          [] m = "ps_reliability" -> "StorageReliability"
          [] m = "wmi_storage" -> "WMI Storage"
          [] m = "none" -> "Tidak tersedia"]

\* method_labels.get(m, m)
method_line(m) == IF m \in DOMAIN method_labels THEN method_labels[m] ELSE m

\* what generate_pdf_report puts in the report: the method line and the
\* status                                    (reporter.py:219-231, 320)
generate_pdf_report(i) ==
    [run |-> i,
     cpu_m |-> method_line(test_thread[i].system_info.temp_cpu_method),
     ssd_m |-> method_line(test_thread[i].system_info.temp_ssd_method),
     status |-> evaluate_status(readings).status]

\* finalize_chart with the exception of generate_chart left uncaught: the
\* thread ends there
finalize_chart_uncaught(i) ==
    /\ at(i, "chart")
    /\ \/ /\ chart' = "written"
          /\ goto(i, "pdf")
       \/ /\ chart' = "failed"
          /\ test_thread' = [test_thread EXCEPT ![i] = [NoThread EXCEPT !.pc = "dead"]]
    /\ UNCHANGED <<handles,
                   cpu_method, ssd_method, pc, op, metric, kind, idx, prev,
                   calls, ret, util, cpu_temp, reading, cpu_absent,
                   ssd_absent, ticks, last_raw, last_fn, env, first, readings,
                   verdict, ui, running, btn_start, btn_stop,
                   lbl_sensor_info, metric_text, shown, ui_queue, csv,
                   csv_rows, taken, runs, reads, report, s_running, s_mode,
                   s_threads, workers, changes>>

\* chart_path = generate_chart(self.readings), or "" when it raises
\* (main.py:320-323)
finalize_chart(i) ==
    /\ at(i, "chart")
    /\ chart' \in {"written", "failed"}
    /\ goto(i, "pdf")
    /\ UNCHANGED <<handles,
                   cpu_method, ssd_method, pc, op, metric, kind, idx, prev,
                   calls, ret, util, cpu_temp, reading, cpu_absent,
                   ssd_absent, ticks, last_raw, last_fn, env, first, readings,
                   verdict, ui, running, btn_start, btn_stop,
                   lbl_sensor_info, metric_text, shown, ui_queue, csv,
                   csv_rows, taken, runs, reads, report, s_running, s_mode,
                   s_threads, workers, changes>>

\* pdf_path = generate_pdf_report(...), or "" when it raises; then
\* _finish_test is called                                  (main.py:325-344)
finalize_pdf(i) ==
    /\ at(i, "pdf")
    /\ report' \in {generate_pdf_report(i), report}
    /\ goto(i, "finish")
    /\ UNCHANGED <<handles,
                   cpu_method, ssd_method, pc, op, metric, kind, idx, prev,
                   calls, ret, util, cpu_temp, reading, cpu_absent,
                   ssd_absent, ticks, last_raw, last_fn, env, first, readings,
                   verdict, ui, running, btn_start, btn_stop,
                   lbl_sensor_info, metric_text, shown, ui_queue, csv,
                   csv_rows, taken, runs, reads, chart, s_running, s_mode,
                   s_threads, workers, changes>>

\* _finish_test: the flag and the callbacks; the thread has still to
\* return from _finish_test and from _run_test             (main.py:346-353)
finish_test(i) ==
    /\ at(i, "finish")
    /\ Len(ui_queue) + 2 <= MaxQueue
    /\ running' = FALSE
    /\ schedule(<<btn_start_cb("normal"), btn_stop_cb("disabled")>>)
    /\ test_thread' = [test_thread EXCEPT ![i] = [NoThread EXCEPT !.pc = "return"]]
    /\ UNCHANGED <<handles,
                   cpu_method, ssd_method, pc, op, metric, kind, idx, prev,
                   calls, ret, util, cpu_temp, reading, cpu_absent,
                   ssd_absent, ticks, last_raw, last_fn, env, first, readings,
                   verdict, ui, btn_start, btn_stop, lbl_sensor_info,
                   metric_text, shown, csv, csv_rows, taken, runs, reads,
                   chart, report, s_running, s_mode, s_threads, workers,
                   changes>>

\* _run_test returns and the thread ends        (main.py:264, 275, 284)
run_test_return(i) ==
    /\ at(i, "return")
    /\ goto(i, "done")
    /\ UNCHANGED <<handles,
                   cpu_method, ssd_method, pc, op, metric, kind, idx, prev,
                   calls, ret, util, cpu_temp, reading, cpu_absent,
                   ssd_absent, ticks, last_raw, last_fn, env, first, readings,
                   verdict, ui, running, btn_start, btn_stop,
                   lbl_sensor_info, metric_text, shown, ui_queue, csv,
                   csv_rows, taken, runs, reads, chart, report, s_running,
                   s_mode, s_threads, workers, changes>>

NextApp ==
    \/ init_wmi_providers
    \/ detect_cpu_step
    \/ detect_ssd_begin
    \/ detect_ssd_step
    \/ app_init
    \/ backend_change
    \/ on_start
    \/ on_stop
    \/ ui_stop_flag
    \/ ui_stop_join
    \/ ui_stop_clear
    \/ ui_callback
    \/ \E i \in Threads : run_test_csv(i)
    \/ \E i \in Threads : run_test_info(i)
    \/ \E i \in Threads : run_test_start_idle(i)
    \/ \E i \in Threads : collect_loop(i)
    \/ \E i \in Threads : collect_check(i)
    \/ \E i \in Threads : collect_read_call(i)
    \/ app_read_sensors
    \/ cpu_fast_step
    \/ cpu_sweep_step
    \/ read_sensors_ssd
    \/ ssd_fast_step
    \/ ssd_sweep_step
    \/ read_sensors_return
    \/ \E i \in Threads : collect_log(i)
    \/ \E i \in Threads : collect_raise(i)
    \/ \E i \in Threads : start_load(i)
    \/ \E i \in Threads : start_load_spawn(i)
    \/ \E w \in WorkerIds : worker_exit(w)
    \/ \E i \in Threads : run_test_stop_flag(i)
    \/ \E i \in Threads : run_test_stop_join(i)
    \/ \E i \in Threads : run_test_stop_clear(i)
    \/ \E i \in Threads : finalize_close(i)
    \/ \E i \in Threads : finalize_chart(i)
    \/ \E i \in Threads : finalize_pdf(i)
    \/ \E i \in Threads : finish_test(i)
    \/ \E i \in Threads : run_test_return(i)

SpecApp == InitApp /\ [][NextApp]_vars

\* the steps of the UI thread that need no user: the construction of the
\* monitor and of the window, and StressEngine.stop() once _on_stop has
\* called it
UiStep ==
    \/ init_wmi_providers
    \/ detect_cpu_step
    \/ detect_ssd_begin
    \/ detect_ssd_step
    \/ app_init
    \/ ui_stop_flag
    \/ ui_stop_join
    \/ ui_stop_clear

\* the steps of test thread i outside read_sensors()
ThreadStep(i) ==
    \/ run_test_csv(i)
    \/ run_test_info(i)
    \/ run_test_start_idle(i)
    \/ collect_loop(i)
    \/ collect_check(i)
    \/ collect_read_call(i)
    \/ collect_log(i)
    \/ collect_raise(i)
    \/ start_load(i)
    \/ start_load_spawn(i)
    \/ run_test_stop_flag(i)
    \/ run_test_stop_join(i)
    \/ run_test_stop_clear(i)
    \/ finalize_close(i)
    \/ finalize_chart(i)
    \/ finalize_pdf(i)
    \/ finish_test(i)
    \/ run_test_return(i)

\* the steps of a read_sensors() call in progress
ReadStep ==
    \/ app_read_sensors
    \/ cpu_fast_step
    \/ cpu_sweep_step
    \/ read_sensors_ssd
    \/ ssd_fast_step
    \/ ssd_sweep_step
    \/ read_sensors_return

\* SpecApp with every thread scheduled again and again: the UI thread's
\* own steps, each test thread, the call in progress and each worker go on
\* when they can; the event loop takes events in the order of their
\* arrival, so a scheduled callback is run even if the user goes on
\* clicking; the user's clicks and the backends' changes need not happen
SpecAppFair ==
    /\ InitApp
    /\ [][NextApp]_vars
    /\ WF_vars(UiStep)
    /\ SF_vars(ui_callback)
    /\ WF_vars(ReadStep)
    /\ \A i \in Threads : WF_vars(ThreadStep(i))
    /\ \A w \in WorkerIds : WF_vars(worker_exit(w))

-----------------------------------------------------------------------------
(* Vocabulary of the properties *)

\* position of a probe name in a chain
Pos(chain, name) == CHOOSE i \in 1..Len(chain) : chain[i] = name

\* the construction-time loop of a chain is over (normally, or by a raise)
CpuDetectEnded ==
    kind = "detect" /\ metric = "cpu" /\ pc \in {"detect_cpu_end", "failed"}
SsdDetectEnded ==
    kind = "detect" /\ metric = "ssd" /\ pc \in {"ready", "failed"}

\* a get_cpu_temperature / get_ssd_temperature call is over and `calls',
\* `prev' and `ret' describe it
CpuGetEnded == kind = "get" /\ metric = "cpu" /\ pc \in {"ready", "read_ssd"}
SsdGetEnded == kind = "get" /\ metric = "ssd" /\ pc \in {"ready", "read_ret"}

\* a read_sensors call is over
ReadEnded == op = "read_sensors" /\ pc = "ready"

\* the call began with a selected method and that probe, called first,
\* returned a value / returned absence
StickyCalledFirst == prev # NoMethod /\ Len(calls) >= 1 /\ calls[1].name = prev
StickyHit == StickyCalledFirst /\ IsVal(calls[1].res)
StickyMiss == StickyCalledFirst /\ calls[1].res = None

\* the invocations of a get call after the sticky probe's first one
Sweep == IF prev # NoMethod /\ Len(calls) >= 1 THEN Tail(calls) ELSE calls

\* log is a walk of chain from its first probe, in order, in which only the
\* last invocation may have returned something else than absence
WalkFromTop(chain, log) ==
    /\ Len(log) <= Len(chain)
    /\ \A i \in 1..Len(log) : log[i].name = chain[i]
    /\ \A i \in 1..(Len(log) - 1) : log[i].res = None

-----------------------------------------------------------------------------
(* C1 *)

\* what a finished discovery loop over chain leaves in the method slot m
DiscoveryPost(chain, log, m) ==
    /\ WalkFromTop(chain, log)
    /\ Len(log) >= 1
    /\ IF IsVal(log[Len(log)].res)
       THEN m = log[Len(log)].name
       ELSE m = NoMethod
    /\ log[Len(log)].res = None => Len(log) = Len(chain)

\* C1: when the construction-time discovery of a chain is over, the probes
\* it called are the chain's probes from the first one on, in priority order,
\* every one before the last returned absence, and the selected method is
\* the probe whose call returned a value (the first one, as the walk stops
\* there), or unset if the whole chain returned absence.  No probe of lower
\* priority than the selected one was called, so no outcome of such a probe
\* can change the selection.
C1_DiscoverySelectsFirstSuccess ==
    /\ CpuDetectEnded => DiscoveryPost(cpu_methods, calls, cpu_method)
    /\ SsdDetectEnded => DiscoveryPost(ssd_methods, calls, ssd_method)

C1_Witness ==
    /\ SsdDetectEnded
    /\ pc = "ready"
    /\ cpu_method = "wmi_acpi"
    /\ ssd_method = "ps_reliability"
    /\ Len(calls) = 3

-----------------------------------------------------------------------------
(* C2 *)

FastPathPost(m) ==
    prev # NoMethod =>
        /\ calls[1].name = prev
        /\ IsVal(calls[1].res) =>
              /\ Len(calls) = 1
              /\ ret = calls[1].res
              /\ m = prev

\* C2: in a get call that began with a method selected, the first probe
\* invoked is the selected one, and if it returned a value then it is the
\* only probe invoked in the call, the call returns that value and the
\* selected method is what it was.
C2_SteadyStateFastPath ==
    /\ CpuGetEnded => FastPathPost(cpu_method)
    /\ SsdGetEnded => FastPathPost(ssd_method)

C2_Witness ==
    /\ CpuGetEnded
    /\ ticks = 2
    /\ prev = "ohm_wmi"
    /\ calls = <<Call("ohm_wmi", Val(5000))>>
    /\ ret = Val(5000)
    /\ cpu_method = "ohm_wmi"

-----------------------------------------------------------------------------
(* C3 *)

RediscoveryPost(chain, m) ==
    StickyMiss =>
        LET sweep == Tail(calls)
            n == Len(sweep)
        IN  /\ n >= 1
            /\ WalkFromTop(chain, sweep)
            /\ IsVal(sweep[n].res) => ret = sweep[n].res /\ m = sweep[n].name
            /\ sweep[n].res = None => n = Len(chain) /\ ret = None

\* C3: in a get call whose first invocation, the selected probe, returned
\* absence, the same call goes on to walk the chain from its first probe in
\* priority order; it stops at the first probe that returns a value, returns
\* that value and records that probe as the selected method; if every probe
\* of the chain returned absence it returns absence.
C3_FailureRerunsDiscovery ==
    /\ CpuGetEnded => RediscoveryPost(cpu_methods, cpu_method)
    /\ SsdGetEnded => RediscoveryPost(ssd_methods, ssd_method)

C3_Witness ==
    /\ CpuGetEnded
    /\ prev = "lhm"
    /\ calls[1] = Call("lhm", None)
    /\ Len(calls) = 4
    /\ cpu_method = "wmi_acpi"
    /\ ret = Val(4240)

-----------------------------------------------------------------------------
(* C4 *)

\* the selected probe failed and the sweep that followed found nothing
Exhausted(chain) ==
    /\ StickyMiss
    /\ Len(calls) = Len(chain) + 1
    /\ \A i \in 1..Len(calls) : calls[i].res = None

\* C4: after a get call in which the selected probe failed and the re-run
\* discovery exhausted the chain, the selected method is unset ("none").
C4_ExhaustedResetsMethod ==
    /\ CpuGetEnded /\ Exhausted(cpu_methods) => cpu_method = NoMethod
    /\ SsdGetEnded /\ Exhausted(ssd_methods) => ssd_method = NoMethod

-----------------------------------------------------------------------------
(* C5 *)

Plausible(t) == t # None => 0 < t.v /\ t.v < 15000

\* C5: a present cpu_temp or ssd_temp of a returned SensorReading lies
\* strictly between 0 and 150 degrees.
C5_ReadingTempsInRange ==
    reading # NoReading =>
        Plausible(reading.cpu_temp) /\ Plausible(reading.ssd_temp)

-----------------------------------------------------------------------------
(* C6 *)

\* C6: no probe invocation ends in a raise, so neither the discovery nor a
\* get call nor read_sensors ever ends in one.
C6_ProbesNeverRaise ==
    /\ \A i \in 1..Len(calls) : calls[i].res # Raised
    /\ ret # Raised
    /\ pc # "failed"

-----------------------------------------------------------------------------
(* C7 *)

\* C7: a returned SensorReading has cpu_percent, ram_percent and
\* disk_percent present, and a read_sensors call whose temperature calls
\* both returned (a value or absence) ends with a reading: absence of both
\* temperatures does not stand in the way.
C7_UtilizationAlwaysPresent ==
    /\ reading # NoReading =>
          /\ IsVal(reading.cpu_percent)
          /\ IsVal(reading.ram_percent)
          /\ IsVal(reading.disk_percent)
    /\ ReadEnded /\ ret # Raised => reading # NoReading

C7_Witness ==
    /\ ReadEnded
    /\ reading # NoReading
    /\ reading.cpu_temp = None
    /\ reading.ssd_temp = None
    /\ cpu_absent
    /\ ssd_absent
    /\ IsVal(reading.cpu_percent)

-----------------------------------------------------------------------------
(* C8 *)

SelfHealingPost(chain, m, label, labels) ==
    /\ StickyHit => ret = calls[1].res /\ m = prev /\ label = labels[prev]
    /\ StickyMiss =>
          LET last == calls[Len(calls)]
          IN  IsVal(last.res) /\ Pos(chain, last.name) > Pos(chain, prev) =>
                /\ \A i \in 2..(Len(calls) - 1) : calls[i].res = None
                /\ ret = last.res
                /\ m = last.name
                /\ label = labels[last.name]

\* C8: a get call that begins with probe B selected and in which B returns
\* a value returns B's value, and the method and its label still name B; a
\* get call that begins with B selected, in which B and every probe of
\* higher priority return absence and a probe C of lower priority returns a
\* value, returns C's value, and afterwards the method and its label name C.
C8_SelfHealing ==
    /\ CpuGetEnded =>
          SelfHealingPost(cpu_methods, cpu_method, cpu_method_label, cpu_labels)
    /\ SsdGetEnded =>
          SelfHealingPost(ssd_methods, ssd_method, ssd_method_label, ssd_labels)

\* the second get_cpu_temperature call of a monitor whose LHM backend was
\* never there: ohm_wmi was selected, fails now, and wmi_acpi takes over
C8_Witness ==
    /\ CpuGetEnded
    /\ ticks = 2
    /\ ~LHM_READY
    /\ prev = "ohm_wmi"
    /\ calls = <<Call("ohm_wmi", None), Call("lhm", None),
                 Call("ohm_wmi", None), Call("wmi_acpi", Val(4240))>>
    /\ ret = Val(4240)
    /\ cpu_method = "wmi_acpi"
    /\ cpu_method_label = "WMI ThermalZone"

-----------------------------------------------------------------------------
(* C9 *)

\* C9: as long as every invocation of a chain's probes, from construction
\* on, has returned absence, the chain's method is unset, every get call and
\* every reading reports the temperature as absent, the label is
\* "Tidak tersedia" and the system-info field is "none".
C9_AllFailStaysUnavailable ==
    /\ cpu_absent =>
          /\ cpu_method = NoMethod
          /\ cpu_method_label = "Tidak tersedia"
          /\ temp_cpu_method = "none"
          /\ CpuGetEnded => ret = None
          /\ reading # NoReading => reading.cpu_temp = None
    /\ ssd_absent =>
          /\ ssd_method = NoMethod
          /\ ssd_method_label = "Tidak tersedia"
          /\ temp_ssd_method = "none"
          /\ SsdGetEnded => ret = None
          /\ reading # NoReading => reading.ssd_temp = None

C9_Witness ==
    /\ ReadEnded
    /\ ticks = MaxTicks
    /\ cpu_absent
    /\ reading # NoReading
    /\ reading.cpu_temp = None
    /\ Len(calls) >= 1
    /\ cpu_method_label = "Tidak tersedia"

-----------------------------------------------------------------------------
(* C10 *)

InPriorityOrder(chain, log) ==
    \A i, j \in 1..Len(log) :
        i < j => Pos(chain, log[i].name) < Pos(chain, log[j].name)

\* C10 as stated: within one get call no probe is invoked before a probe of
\* higher priority that is invoked in the same call.
C10_AllCallsInPriorityOrder ==
    kind = "get" =>
        \A i, j \in 1..Len(calls) :
            i < j =>
                LET chain == IF metric = "cpu" THEN cpu_methods ELSE ssd_methods
                IN  ~(Pos(chain, calls[j].name) < Pos(chain, calls[i].name))

\* C10 amended: within one get call the probes invoked after the first
\* invocation of the selected (sticky) probe are invoked in the chain's
\* declared priority order, each at most once; only that first invocation
\* of the sticky probe may come before probes of higher priority.
C10_SweepInPriorityOrder ==
    kind = "get" =>
        InPriorityOrder(IF metric = "cpu" THEN cpu_methods ELSE ssd_methods,
                        Sweep)

C10_Witness ==
    /\ CpuGetEnded
    /\ prev = "wmi_acpi"
    /\ Len(calls) = 6
    /\ cpu_method = "psutil"
    /\ calls[1].name = "wmi_acpi"
    /\ calls[2].name = "lhm"

-----------------------------------------------------------------------------
(* C13 *)

\* the label and the system-info field of a method slot m identify m
Identifies(m, label, labels, field) ==
    /\ (label = "Tidak tersedia") <=> (m = NoMethod)
    /\ (field = "none") <=> (m = NoMethod)
    /\ m # NoMethod =>
          /\ m \in DOMAIN labels
          /\ label = labels[m]
          /\ field = m
          /\ \A n \in DOMAIN labels : labels[n] = label => n = m

\* C13: at every point cpu_method_label, ssd_method_label and the
\* temp_cpu_method / temp_ssd_method fields identify the method selected for
\* their metric: they show "Tidak tersedia" / "none" exactly when no method
\* is selected, and otherwise the label that belongs to the selected method
\* and to no other method of the chain, and the method's name.
C13_LabelsIdentifyMethod ==
    /\ Identifies(cpu_method, cpu_method_label, cpu_labels, temp_cpu_method)
    /\ Identifies(ssd_method, ssd_method_label, ssd_labels, temp_ssd_method)

C13_Witness ==
    /\ ReadEnded
    /\ cpu_method = "ps_acpi"
    /\ cpu_method_label = "PowerShell ACPI"
    /\ temp_cpu_method = "ps_acpi"
    /\ ssd_method = NoMethod
    /\ ssd_method_label = "Tidak tersedia"
    /\ temp_ssd_method = "none"

-----------------------------------------------------------------------------
(* C18 *)

\* the invocations of the discovery pass in progress or just ended: the
\* construction-time loop, or the sweep of a get call
PassLog == IF kind = "detect" THEN calls ELSE Sweep

PassEnded ==
    CpuDetectEnded \/ SsdDetectEnded \/ CpuGetEnded \/ SsdGetEnded

\* C18: in every discovery pass (at construction and inside a get call) no
\* probe is invoked after a probe of the pass returned a value, and when the
\* pass ends on a value the method recorded is the probe that returned it.
C18_PassStopsAtFirstSuccess ==
    /\ \A i \in 1..(Len(PassLog) - 1) : ~IsVal(PassLog[i].res)
    /\ PassEnded /\ Len(PassLog) >= 1 /\ IsVal(PassLog[Len(PassLog)].res) =>
          PassLog[Len(PassLog)].name =
              (IF metric = "cpu" THEN cpu_method ELSE ssd_method)

C18_Witness ==
    /\ SsdGetEnded
    /\ prev = NoMethod
    /\ calls = <<Call("lhm", None), Call("ohm_wmi", Val(4230))>>
    /\ ssd_method = "ohm_wmi"
    /\ ret = Val(4230)

-----------------------------------------------------------------------------
(* C19 *)

SweepBudget(chain) ==
    /\ Len(calls) <= Len(chain) + 1
    /\ StickyHit => Len(calls) = 1
    /\ Len(Sweep) >= 1 => prev = NoMethod \/ StickyMiss
    /\ Len(Sweep) <= Len(chain)
    /\ InPriorityOrder(chain, Sweep)

\* C19: a get call sweeps the chain only if no method was selected or the
\* selected probe returned absence in that call, and it sweeps at most once
\* (no probe occurs twice in the sweep); so it makes exactly one invocation
\* when the sticky probe returns a value and at most N + 1 invocations
\* otherwise, N being the length of the chain.
C19_OneSweepAtMost ==
    kind = "get" =>
        SweepBudget(IF metric = "cpu" THEN cpu_methods ELSE ssd_methods)

C19_Witness ==
    /\ SsdGetEnded
    /\ prev = "wmi_storage"
    /\ Len(calls) = Len(ssd_methods) + 1
    /\ ret = None

-----------------------------------------------------------------------------
(* C20 *)

\* how often probe n was invoked in the call
Invocations(n) == Cardinality({i \in 1..Len(calls) : calls[i].name = n})

\* C20 as stated: within one get call no probe is invoked more than once.
C20_NoProbeInvokedTwice ==
    kind = "get" =>
        \A i, j \in 1..Len(calls) : calls[i].name = calls[j].name => i = j

\* C20 amended: within one get call every probe is invoked at most once,
\* except the probe that was selected when the call began: if its first
\* invocation returned absence, the sweep that follows invokes it a second
\* time; no probe is invoked a third time.
C20_OnlyStickyInvokedTwice ==
    kind = "get" =>
        \A n \in Range(IF metric = "cpu" THEN cpu_methods ELSE ssd_methods) :
            /\ Invocations(n) <= 2
            /\ Invocations(n) = 2 => n = prev /\ StickyMiss

C20_Witness ==
    /\ CpuGetEnded
    /\ prev = "ohm_wmi"
    /\ calls = <<Call("ohm_wmi", None), Call("lhm", None),
                 Call("ohm_wmi", Val(5000))>>
    /\ Invocations("ohm_wmi") = 2

-----------------------------------------------------------------------------
(* C12 *)

\* the step just taken invoked a probe whose backend was there and gave a
\* number
RawRead ==
    /\ last_raw.k = "num"
    /\ Len(calls) >= 1
    /\ LET name == calls[Len(calls)].name
       IN  CASE name = "lhm" -> LHM_READY
             [] name = "ohm_wmi" -> wmi_ohm
             [] name = "wmi_acpi" -> wmi_root
             [] name = "wmi_storage" -> wmi_storage
             [] OTHER -> TRUE

\* that number in hundredths of a degree Celsius
RawCelsius ==
    IF calls[Len(calls)].name \in {"wmi_acpi", "ps_acpi"}
    THEN AcpiCelsius(last_raw.v)
    ELSE last_raw.v

\* the walk goes on after the invocation just made: the sweep is entered
\* after the sticky probe, the next probe of the chain is due otherwise
WalkProceeds(chain) ==
    LET walking == IF kind = "detect" THEN "detect_" \o metric
                   ELSE metric \o "_sweep"
    IN  IF kind = "get" /\ prev # NoMethod /\ Len(calls) = 1
        THEN pc = walking /\ idx = 1
        ELSE Len(PassLog) < Len(chain) =>
                pc = walking /\ idx = Len(PassLog) + 1

\* C12: whenever a probe of either chain is invoked and its backend is
\* there and yields a number, then if the number (in degrees Celsius) is not
\* strictly between 0 and 150 the probe returns absence, the selected
\* method is not set to that probe by the invocation and the walk proceeds
\* to the next probe; and if it is strictly between 0 and 150 the probe
\* returns a value.
C12_OutOfRangeIsAbsence ==
    RawRead =>
        LET last == calls[Len(calls)]
            chain == IF metric = "cpu" THEN cpu_methods ELSE ssd_methods
            m == IF metric = "cpu" THEN cpu_method ELSE ssd_method
        IN  IF 0 < RawCelsius /\ RawCelsius < 15000
            THEN IsVal(last.res)
            ELSE /\ last.res = None
                 /\ m = (IF kind = "detect" THEN NoMethod ELSE prev)
                 /\ WalkProceeds(chain)

\* the same for the probes that validate, psutil left aside
C12_ValidatingProbes ==
    RawRead /\ calls[Len(calls)].name # "psutil" => C12_OutOfRangeIsAbsence

\* a validating probe discards exactly 150 degrees and the walk goes on
C12_Discarded ==
    /\ RawRead
    /\ kind = "get"
    /\ metric = "ssd"
    /\ calls[Len(calls)] = Call("ps_reliability", None)
    /\ last_raw = Out("num", 15000)
    /\ pc = "ssd_sweep"
    /\ idx = 4

-----------------------------------------------------------------------------
(* C11 *)

\* a get_cpu_temperature call of the second monitor is over and `first'
\* holds what the call of the first monitor gave
DetCompared ==
    /\ first # NoFirst
    /\ CpuGetEnded
    /\ ret # Pending

\* C11 as stated: two monitors that face the same probe outcomes during a
\* read return the same temperature and end with the same selected method,
\* whatever method each had selected before the read.
C11_ReadIsFunctionOfBackends ==
    DetCompared => ret = first.ret /\ cpu_method = first.method

\* C11 amended: of two monitors that face the same probe outcomes during a
\* read, those in which no method is selected or the selected probe returns
\* absence return the same temperature and, when it is a value, end with
\* the same selected method; a monitor whose selected probe returns a value
\* returns that probe's value and keeps its method.
C11_SweepingMonitorsAgree ==
    DetCompared =>
        /\ first.swept /\ (prev = NoMethod \/ StickyMiss) =>
              /\ ret = first.ret
              /\ IsVal(ret) => cpu_method = first.method
        /\ StickyHit =>
              /\ ret = CpuProbe(prev, env[<<"cpu", prev>>])
              /\ cpu_method = prev

\* psutil was selected in the first monitor, ohm_wmi in the second; both
\* probes return absence and both monitors end on lhm with its value
C11_Witness ==
    /\ DetCompared
    /\ first.prev = "psutil"
    /\ first.swept
    /\ prev = "ohm_wmi"
    /\ StickyMiss
    /\ ret = Val(4230)
    /\ first.ret = Val(4230)
    /\ cpu_method = "lhm"
    /\ first.method = "lhm"

-----------------------------------------------------------------------------
(* C17 *)

\* the CPU temperatures of the readings that have one
CpuTemps ==
    {readings[i].cpu_temp.v :
        i \in {j \in 1..Len(readings) : readings[j].cpu_temp # None}}

\* C17: when evaluate_status has been applied to a list of readings of
\* which at least one has a CPU temperature, the status is LULUS exactly if
\* every CPU temperature is below 75, GAGAL exactly if one is above 85, and
\* PERINGATAN exactly if none is above 85 and one is at least 75; readings
\* without a temperature and the CPU usages play no part.
C17_VerdictFollowsCriteria ==
    verdict # NoVerdict /\ CpuTemps # {} =>
        /\ verdict.status = "LULUS" <=> \A t \in CpuTemps : t < 7500
        /\ verdict.status = "GAGAL" <=> \E t \in CpuTemps : t > 8500
        /\ verdict.status = "PERINGATAN" <=>
              /\ \A t \in CpuTemps : t <= 8500
              /\ \E t \in CpuTemps : t >= 7500

\* exactly 85 degrees next to a reading without temperature and a usage
\* above 95 percent
C17_Witness ==
    /\ verdict.status = "PERINGATAN"
    /\ Len(readings) = 3
    /\ readings[1].cpu_temp = None
    /\ readings[1].cpu_percent = Val(9600)
    /\ readings[2].cpu_temp = Val(8500)
    /\ readings[3].cpu_temp = Val(7490)

-----------------------------------------------------------------------------
(* C14 *)

\* C14: when a test run is over and the method selected for a metric is not
\* the one that was selected when the run began, the method label of the
\* status line and, if the run wrote a report, the method line of the
\* report name the method that is selected now.
C14_ChangeIsSurfaced ==
    \A i \in Threads :
        at(i, "finish") /\ test_thread[i].system_info # NoInfo =>
            /\ test_thread[i].system_info.temp_cpu_method # temp_cpu_method =>
                  /\ lbl_sensor_info[1] = cpu_method_label
                  /\ report.run = i => report.cpu_m = cpu_method_label
            /\ test_thread[i].system_info.temp_ssd_method # temp_ssd_method =>
                  /\ lbl_sensor_info[2] = ssd_method_label
                  /\ report.run = i => report.ssd_m = ssd_method_label

-----------------------------------------------------------------------------
(* C15 *)

\* text shows value: "N/A" exactly if the value is absent, and the value
\* itself if it is present
Rendered(text, value) ==
    /\ text.s = "N/A" <=> value = None
    /\ value # None => text.s = "num" /\ text.v = value.v

\* C15: the two temperature labels of the UI show the temperatures of the
\* reading _update_metrics was called with, and the temperature cells of
\* each CSV row those of the reading it was written for, as "N/A" exactly
\* if the temperature is absent; every reading returned to the collection
\* loop, with or without temperatures, has been appended and written when
\* the loop is back at its time test, and a test thread ends inside the
\* loop only when read_sensors raised.
C15_AbsenceIsNA ==
    /\ shown # NoReading =>
          /\ Rendered(metric_text.cpu_temp, shown.cpu_temp)
          /\ Rendered(metric_text.ssd_temp, shown.ssd_temp)
    /\ csv = "open" =>
          /\ Len(csv_rows) = Len(readings)
          /\ \A k \in 1..Len(csv_rows) :
                /\ Rendered(csv_rows[k].cpu_temp, readings[k].cpu_temp)
                /\ Rendered(csv_rows[k].ssd_temp, readings[k].ssd_temp)
    /\ \A i \in Threads :
          /\ at(i, "loop") /\ test_thread[i].polled =>
                /\ readings # <<>>
                /\ readings[Len(readings)] = reading
          /\ at(i, "dead") => ret = Raised

\* no sensor answers: the first reading has no temperature, its row and
\* the labels say "N/A", and a second reading has been taken
C15_Witness ==
    /\ \E i \in Threads : at(i, "loop") /\ test_thread[i].polled
    /\ csv = "open"
    /\ Len(readings) = 2
    /\ readings[1].cpu_temp = None
    /\ readings[1].ssd_temp = None
    /\ csv_rows[1].cpu_temp = NA
    /\ csv_rows[1].ssd_temp = NA
    /\ shown = readings[1]
    /\ metric_text.cpu_temp = NA

-----------------------------------------------------------------------------
(* C16 *)

\* C16: a test thread calls start_load at most once, and only after its
\* idle collection loop ended by its time test; no worker thread is alive
\* while a test thread is in read_sensors in its idle phase; and the
\* readings of a run are taken in the idle phase or in the load phase, none
\* in the idle phase after one in the load phase.
C16_IdleBeforeLoad ==
    /\ \A i \in Threads :
          /\ test_thread[i].loads <= 1
          /\ test_thread[i].loads = 1 => test_thread[i].idle_done
          /\ at(i, "in_read") /\ test_thread[i].phase = "idle" =>
                \A w \in WorkerIds : workers[w] # "alive"
    /\ \A k \in 1..Len(taken) : taken[k].phase \in {"idle", "load"}
    /\ \A k, l \in 1..Len(taken) :
          k < l => ~(taken[k].phase = "load" /\ taken[l].phase = "idle")

\* C16 without its part on the workers
C16_PhasesInOrder ==
    /\ \A i \in Threads :
          /\ test_thread[i].loads <= 1
          /\ test_thread[i].loads = 1 => test_thread[i].idle_done
    /\ \A k \in 1..Len(taken) : taken[k].phase \in {"idle", "load"}
    /\ \A k, l \in 1..Len(taken) :
          k < l => ~(taken[k].phase = "load" /\ taken[l].phase = "idle")

-----------------------------------------------------------------------------
(* C24 *)

\* the priority order the module header documents        (monitor.py:8-19)
cpu_priority == <<"lhm", "ohm_wmi", "wmi_acpi", "ps_acpi", "psutil">>
ssd_priority == <<"lhm", "ohm_wmi", "ps_reliability", "wmi_storage">>

\* the first invocation of a log that returned a value, or 0
FirstValue(log) ==
    IF \E i \in 1..Len(log) : IsVal(log[i].res)
    THEN CHOOSE i \in 1..Len(log) :
             /\ IsVal(log[i].res)
             /\ \A j \in 1..(i - 1) : ~IsVal(log[j].res)
    ELSE 0

\* what a discovery over chain selects and yields when its probes return
\* what log says: the first probe with a value and that value, or nothing
Selects(log) == IF FirstValue(log) = 0 THEN NoMethod ELSE log[FirstValue(log)].name
Yields(log) == IF FirstValue(log) = 0 THEN None ELSE log[FirstValue(log)].res

\* log is the discovery of chain: the probes of chain from the first one on,
\* in order, up to and including the first that does not return absence,
\* or all of them
DiscoveryOf(chain, log) ==
    /\ WalkFromTop(chain, log)
    /\ Len(log) >= 1
    /\ log[Len(log)].res = None => Len(log) = Len(chain)

\* C24: the chain get_cpu_temperature / get_ssd_temperature sweeps is the
\* chain of the construction-time discovery and the documented priority
\* list; a get call that begins with no method selected invokes the probes
\* as the construction-time loop does, and like it ends with the first
\* probe that returned a value selected, the call returning that value (and
\* with nothing selected and absence returned if no probe returned one).
C24_RediscoveryIsDiscovery ==
    /\ cpu_dispatch = cpu_methods /\ cpu_methods = cpu_priority
    /\ ssd_dispatch = ssd_methods /\ ssd_methods = ssd_priority
    /\ CpuDetectEnded =>
          DiscoveryOf(cpu_methods, calls) /\ cpu_method = Selects(calls)
    /\ SsdDetectEnded =>
          DiscoveryOf(ssd_methods, calls) /\ ssd_method = Selects(calls)
    /\ CpuGetEnded /\ prev = NoMethod =>
          /\ DiscoveryOf(cpu_methods, calls)
          /\ cpu_method = Selects(calls)
          /\ ret # Raised => ret = Yields(calls)
    /\ SsdGetEnded /\ prev = NoMethod =>
          /\ DiscoveryOf(ssd_methods, calls)
          /\ ssd_method = Selects(calls)
          /\ ret # Raised => ret = Yields(calls)

\* a monitor on which the construction-time discovery found no CPU probe
\* answering; a later get call finds the third probe of the chain
C24_Witness ==
    /\ CpuGetEnded
    /\ prev = NoMethod
    /\ ticks >= 1
    /\ calls = <<Call("lhm", None), Call("ohm_wmi", None),
                 Call("wmi_acpi", Val(4240))>>
    /\ cpu_method = "wmi_acpi"
    /\ ret = Val(4240)

-----------------------------------------------------------------------------
(* C26 *)

\* every probe of chain was invoked in the call
AllInvoked(chain) ==
    \A n \in Range(chain) : \E i \in 1..Len(calls) : calls[i].name = n

AbsenceMeansExhausted(chain) ==
    /\ ret = None =>
          /\ AllInvoked(chain)
          /\ \A i \in 1..Len(calls) : calls[i].res = None
    /\ (\E i \in 1..Len(calls) : IsVal(calls[i].res)) => IsVal(ret)

\* C26: a get call returns absence only if it invoked every probe of the
\* chain and every invocation returned absence; a get call in which an
\* invocation returned a value returns a value.
C26_AbsenceOnlyWhenExhausted ==
    /\ CpuGetEnded => AbsenceMeansExhausted(cpu_methods)
    /\ SsdGetEnded => AbsenceMeansExhausted(ssd_methods)

\* the selected probe and then the whole chain returned absence
C26_Witness ==
    /\ CpuGetEnded
    /\ prev = "wmi_acpi"
    /\ ret = None
    /\ Len(calls) = Len(cpu_methods) + 1
    /\ AllInvoked(cpu_methods)

-----------------------------------------------------------------------------
(* C27 *)

\* the method slot m names the probe whose invocation, the last of the call,
\* returned the value the call returned
NamesProducer(m) ==
    IsVal(ret) =>
        /\ Len(calls) >= 1
        /\ calls[Len(calls)].name = m
        /\ calls[Len(calls)].res = ret
        /\ \A i \in 1..(Len(calls) - 1) : calls[i].res # ret

\* C27: when a get call returns a value, the selected method after the call
\* names the probe that produced that value in that call: the probe invoked
\* last, the only invocation of the call that returned a value.
C27_MethodNamesProducer ==
    /\ CpuGetEnded => NamesProducer(cpu_method)
    /\ SsdGetEnded => NamesProducer(ssd_method)

\* the selected probe returned absence at its first invocation and the value
\* at its second, in the sweep
C27_Witness ==
    /\ SsdGetEnded
    /\ prev = "ohm_wmi"
    /\ calls = <<Call("ohm_wmi", None), Call("lhm", None),
                 Call("ohm_wmi", Val(4230))>>
    /\ ret = Val(4230)
    /\ ssd_method = "ohm_wmi"

-----------------------------------------------------------------------------
(* C21 *)

\* the step changes the method slot from m to n, as the lifecycle allows:
\* in the construction-time loop only from unset, in a get call only if no
\* method was selected when the call began or the selected probe returned
\* absence in the call, and in both to the name of the probe whose
\* invocation, the one just made, returned a value
LifecycleStep(m, n) ==
    m # n =>
        /\ kind' \in {"detect", "get"}
        /\ kind' = "detect" => m = NoMethod
        /\ kind' = "get" => prev' = NoMethod \/ StickyMiss'
        /\ Len(calls') = Len(calls) + 1
        /\ IsVal(calls'[Len(calls')].res)
        /\ n = calls'[Len(calls')].name

\* C21: both selected methods are unset when construction begins; the
\* construction-time discovery sets each at most once (it only ever changes
\* an unset method); afterwards a method changes only inside a get call in
\* which no method was selected or the probe it named returned absence, and
\* only to the name of a probe that returned a value in that call.
C21_MethodLifecycle ==
    /\ cpu_method = NoMethod /\ ssd_method = NoMethod
    /\ [][/\ LifecycleStep(cpu_method, cpu_method')
          /\ LifecycleStep(ssd_method, ssd_method')]_vars

\* set by the construction-time discovery, changed by a later get call in
\* which the selected probe returned absence
C21_Witness ==
    /\ CpuGetEnded
    /\ StickyMiss
    /\ prev = "ohm_wmi"
    /\ cpu_method = "ps_acpi"
    /\ ret = Val(4240)

-----------------------------------------------------------------------------
(* C23 *)

\* the step leaves the handle h alone, or it is the step `where' of the
\* initialization and binds a handle that was not bound
InitializedOnceAt(h, hnext, where) == hnext # h => pc = where /\ ~h

\* C23: the LibreHardwareMonitor handle and LHM_READY are set only by
\* _init_lhm_runtime at import time, and LHM_READY is true only if the
\* handle is there; the three WMI handles are set only by
\* _init_wmi_providers during construction; each is set at most once, and
\* no step of the discovery, of get_cpu_temperature, get_ssd_temperature or
\* read_sensors changes or closes a handle.
C23_HandlesSetOnce ==
    /\ ~LHM_READY /\ ~lhm_computer /\ ~wmi_ohm /\ ~wmi_root /\ ~wmi_storage
    /\ [][/\ InitializedOnceAt(lhm_computer, lhm_computer', "init_lhm")
          /\ InitializedOnceAt(LHM_READY, LHM_READY', "init_lhm")
          /\ LHM_READY' => lhm_computer'
          /\ InitializedOnceAt(wmi_ohm, wmi_ohm', "init_wmi")
          /\ InitializedOnceAt(wmi_root, wmi_root', "init_wmi")
          /\ InitializedOnceAt(wmi_storage, wmi_storage', "init_wmi")]_vars

\* handles bound at import and at construction, still bound after the
\* discovery and two get calls
C23_Witness ==
    /\ ReadEnded
    /\ ticks >= 2
    /\ LHM_READY
    /\ lhm_computer
    /\ wmi_ohm
    /\ ~wmi_root
    /\ wmi_storage
    /\ reading # NoReading

-----------------------------------------------------------------------------
(* C28: the two metrics are independent *)

CpuFns == {cpu_funcs[n] : n \in Range(cpu_methods)}
SsdFns == {ssd_funcs[n] : n \in Range(ssd_methods)}

\* the monitor is inside the CPU discovery loop or get_cpu_temperature()
InCpuCode == pc \in {"detect_cpu", "cpu_fast", "cpu_sweep"}

\* the monitor is inside the SSD discovery loop or get_ssd_temperature()
InSsdCode == pc \in {"detect_ssd", "ssd_fast", "ssd_sweep"}

IndependentStep ==
    /\ InCpuCode => last_fn' \in CpuFns \cup {NoFn} /\ ssd_method' = ssd_method
    /\ InSsdCode => last_fn' \in SsdFns \cup {NoFn} /\ cpu_method' = cpu_method
    /\ last_fn' # NoFn => (InCpuCode \/ InSsdCode) /\ ~(InCpuCode /\ InSsdCode)
    /\ cpu_method' \in {NoMethod} \cup Range(cpu_methods)
    /\ ssd_method' \in {NoMethod} \cup Range(ssd_methods)

\* C28: every step of the CPU discovery loop and of get_cpu_temperature()
\* invokes a function of the CPU chain or none and leaves the SSD selected
\* method as it is, every step of the SSD discovery loop and of
\* get_ssd_temperature() invokes a function of the SSD chain or none and
\* leaves the CPU selected method as it is, no function of one chain belongs
\* to the other, and each selected method is at all times unset or a name of
\* its own chain.
C28_MetricsIndependent ==
    /\ CpuFns \cap SsdFns = {}
    /\ cpu_method = NoMethod
    /\ ssd_method = NoMethod
    /\ [][IndependentStep]_vars

\* an SSD sweep that moved the SSD method from "lhm" to "ohm_wmi", names the
\* CPU chain has too, by calling the SSD functions, the CPU method staying
\* "lhm"
C28_Witness ==
    /\ SsdGetEnded
    /\ StickyMiss
    /\ prev = "lhm"
    /\ ssd_method = "ohm_wmi"
    /\ last_fn = "_ssd_temp_ohm"
    /\ cpu_method = "lhm"

-----------------------------------------------------------------------------
(* C22: probe calls are sequential *)

\* the thread has been started and has not ended
Alive(i) == test_thread[i].pc \notin {"none", "done", "dead"}

\* the thread is in _run_test before the end of its _finish_test: the part
\* of its life in which it calls the monitor
Active(i) == Alive(i) /\ ~at(i, "return")

\* the monitor is inside a call: its constructor or read_sensors()
InMonitorCall == ~monitor_idle

SequentialCalls ==
    /\ Cardinality({i \in Threads : Active(i)}) <= 1
    /\ ui = "init" => \A i \in Threads : at(i, "none")
    /\ InMonitorCall =>
          \/ ui = "init" /\ op = "__init__"
          \/ ui # "init" /\ op = "read_sensors" /\ \E i \in Threads : at(i, "in_read")

\* C22: while the UI thread constructs the monitor no test thread exists;
\* at most one test thread is before the end of its _finish_test, so at
\* most one thread is in get_system_info() or read_sensors() at a time and
\* a call in progress is the constructor's or that one thread's; a thread
\* past its _finish_test may still be alive beside the next one.
C22_CallsSequential == SequentialCalls

\* C22 as stated: the same, with at most one test thread alive
C22_OneThreadAlive ==
    /\ SequentialCalls
    /\ Cardinality({i \in Threads : Alive(i)}) <= 1

\* the first thread is returning from _finish_test while the second one is
\* inside read_sensors()
C22_Witness ==
    /\ at(1, "return")
    /\ at(2, "in_read")
    /\ InMonitorCall
    /\ op = "read_sensors"

-----------------------------------------------------------------------------
(* C25: every reading of a run is logged *)

\* the thread is in the loop of _collect_phase: at the test of the window,
\* at the test of _running, or calling read_sensors()
InCollectLoop(i) ==
    at(i, "loop") \/ at(i, "check") \/ at(i, "read_call") \/ at(i, "in_read")

\* the rows of the CSV file are the rows of the readings of the list, one
\* each and in the same order
RowsMatchReadings ==
    /\ Len(csv_rows) = Len(readings)
    /\ \A k \in 1..Len(readings) : csv_rows[k] = csv_row(readings[k])

\* C25: whenever a test thread is at a boundary of the collection loop or
\* inside the next read_sensors() call, the CSV rows written since the file
\* was opened and the readings list hold the same readings in the same
\* order, the reading read_sensors() returned last is the last one of both,
\* and every reading of the list was taken by the current run.
C25_EveryReadingLogged ==
    /\ \A i \in Threads :
          /\ InCollectLoop(i) => RowsMatchReadings /\ csv = "open"
          /\ at(i, "loop") /\ test_thread[i].polled =>
                /\ readings # <<>>
                /\ readings[Len(readings)] = reading
                /\ csv_rows[Len(csv_rows)] = csv_row(reading)
    /\ Len(taken) = Len(readings)
    /\ \A k \in 1..Len(taken) : taken[k].run = runs

\* the second run has logged its first reading after a first run that
\* logged one: list and file hold that one reading
C25_Witness ==
    /\ runs = 2
    /\ at(2, "loop")
    /\ test_thread[2].polled
    /\ reads = 2
    /\ Len(readings) = 1
    /\ taken[1].run = 2
    /\ csv_rows = <<csv_row(readings[1])>>

-----------------------------------------------------------------------------
(* C29: no load after Stop *)

\* the step is thread i's call of StressEngine.start_load()
CallsStartLoad(i) == at(i, "start_load") /\ test_thread'[i].pc = "spawn"

\* C29: a test thread calls StressEngine.start_load() only while _running
\* is true, that is, never after _on_stop has set it to false for the run.
C29_NoLoadAfterStop ==
    [][\A i \in Threads : CallsStartLoad(i) => running]_vars

-----------------------------------------------------------------------------
(* C30: at most one read after Stop *)

\* C30: while _running is false a collection starts at most one
\* read_sensors() call and appends at most one reading to the list and the
\* CSV file.
C30_OneReadAfterStop ==
    \A i \in Threads :
        /\ test_thread[i].late.calls <= 1
        /\ test_thread[i].late.logged <= 1

\* Stop came between the test of _running and the call: that call was
\* started and its reading appended with the flag down, and the thread is
\* back at the top of the loop
C30_Witness ==
    /\ ~running
    /\ at(1, "loop")
    /\ test_thread[1].late = [calls |-> 1, logged |-> 1]
    /\ Len(readings) = 1

-----------------------------------------------------------------------------
(* C34: the verdict without CPU temperatures *)

\* the mean of the CPU usages of the readings is above / at most p percent
MeanUsageAbove(p) == SumUsage(readings) > p * 100 * Len(readings)

\* C34: when evaluate_status has been applied to a list of readings none of
\* which has a CPU temperature, the status is LULUS for the empty list, and
\* otherwise GAGAL exactly if the mean CPU usage is above 95, PERINGATAN
\* exactly if it is above 85 and at most 95, and LULUS exactly if it is at
\* most 85.
C34_VerdictFollowsUsage ==
    verdict # NoVerdict /\ CpuTemps = {} =>
        IF readings = <<>> THEN verdict.status = "LULUS"
        ELSE /\ verdict.status = "GAGAL" <=> MeanUsageAbove(95)
             /\ verdict.status = "PERINGATAN" <=>
                   MeanUsageAbove(85) /\ ~MeanUsageAbove(95)
             /\ verdict.status = "LULUS" <=> ~MeanUsageAbove(85)

\* three readings without temperature whose mean usage is exactly 95
C34_Witness ==
    /\ verdict.status = "PERINGATAN"
    /\ Len(readings) = 3
    /\ CpuTemps = {}
    /\ SumUsage(readings) = 3 * 9500
    /\ readings[1].cpu_percent = Val(9500)

\* the empty list has been given its verdict
C34_EmptyIsLulus ==
    /\ readings = <<>>
    /\ verdict.status = "LULUS"

-----------------------------------------------------------------------------
(* C33: the workers of one start_load() call *)

\* the worker threads that are running
AliveWorkers == {w \in WorkerIds : workers[w] = "alive"}

\* the step is one turn of thread i's loop in start_load()
SpawnsWorker(i) == at(i, "spawn") /\ test_thread'[i] # test_thread[i]

\* the step is thread i's call of StressEngine.start_idle()
CallsStartIdle(i) == at(i, "start_idle") /\ test_thread'[i].pc = "loop"

StartLoadStep(i) ==
    /\ CallsStartLoad(i) =>
          /\ s_mode' = "load"
          /\ s_running'
          /\ test_thread'[i].num_workers \in 1..MaxWorkers
          /\ workers' = workers
    /\ SpawnsWorker(i) =>
          /\ test_thread[i].num_workers >= 1
          /\ test_thread'[i].num_workers = test_thread[i].num_workers - 1
          /\ \E w \in WorkerIds \ AliveWorkers :
                /\ workers' = [workers EXCEPT ![w] = "alive"]
                /\ s_threads' = s_threads \cup {w}
          /\ test_thread'[i].pc = "spawn" <=> test_thread'[i].num_workers > 0
          /\ test_thread'[i].pc = "loop" <=> test_thread'[i].num_workers = 0
    /\ CallsStartIdle(i) =>
          /\ s_mode' = "idle"
          /\ workers' = workers
          /\ s_threads' = s_threads

\* C33: a start_load() call sets the mode to "load" and fixes a number of
\* workers that is 1 or 2 whatever psutil reports as the physical core
\* count (None included); each turn of its loop starts exactly one worker
\* and the call returns when that many have been started; a start_idle()
\* call starts none.
C33_OneOrTwoWorkers ==
    [][\A i \in Threads : StartLoadStep(i)]_vars

\* start_load() has returned on a machine with one physical core: one
\* worker runs and the mode is "load"
C33_Witness ==
    /\ at(1, "loop")
    /\ test_thread[1].phase = "load"
    /\ test_thread[1].loads = 1
    /\ running
    /\ s_mode = "load"
    /\ Cardinality(AliveWorkers) = 1
    /\ s_threads = AliveWorkers

\* start_load() has returned with two workers started
C33_TwoWorkers ==
    /\ at(1, "loop")
    /\ test_thread[1].phase = "load"
    /\ s_mode = "load"
    /\ Cardinality(AliveWorkers) = 2

-----------------------------------------------------------------------------
(* C35: _finalize *)

\* the step is a step of thread i
Moves(i) == test_thread'[i] # test_thread[i]

\* close() has been called on the CSV logger of the run
CloseAttempted == csv \in {"closed", "close_failed"}

FinalizeStep(i) ==
    /\ at(i, "finalize") /\ Moves(i) =>
          /\ csv' \in {"closed", "close_failed"}
          /\ chart' = chart
          /\ report' = report
          /\ test_thread'[i].pc = IF readings # <<>> THEN "chart" ELSE "finish"
    /\ at(i, "chart") /\ Moves(i) =>
          /\ chart' \in {"written", "failed"}
          /\ test_thread'[i].pc = "pdf"
    /\ at(i, "pdf") /\ Moves(i) => test_thread'[i].pc = "finish"

\* C35: close() is called on the CSV logger before the chart and the PDF
\* are attempted, they are attempted only with a non-empty readings list,
\* the PDF is attempted after the chart whether the chart was written or
\* failed, and whatever the outcome of close(), of the chart and of the PDF
\* the thread's next position is the call of _finish_test.
C35_FinalizeAlwaysFinishes ==
    /\ \A i \in Threads :
          at(i, "chart") \/ at(i, "pdf") => readings # <<>> /\ CloseAttempted
    /\ [][/\ \A i \in Threads : FinalizeStep(i)
          /\ chart' # chart /\ chart' # "none" =>
                \E i \in Threads : at(i, "chart")
          /\ report' # report /\ report' # NoPdf =>
                \E i \in Threads : at(i, "pdf")]_vars

\* close() raised and the chart failed, and yet the PDF of the run was
\* written and the thread is at _finish_test
C35_Witness ==
    /\ at(1, "finish")
    /\ csv = "close_failed"
    /\ chart = "failed"
    /\ report.run = 1

\* a run without readings is at _finish_test with neither chart nor PDF
C35_NothingToReport ==
    /\ at(1, "finish")
    /\ CloseAttempted
    /\ readings = <<>>
    /\ chart = "none"
    /\ report = NoPdf

-----------------------------------------------------------------------------
(* C32: the stress engine after a run *)

\* thread i has reached _finish_test
Finished(i) == at(i, "finish") \/ at(i, "return") \/ at(i, "done")

\* the state part of C32: when the latest run has reached _finish_test the
\* engine's flag is false, its mode is "idle" and its thread list is empty
C32_EngineFlagsAfterRun ==
    runs >= 1 /\ Finished(runs) =>
        /\ ~s_running
        /\ s_mode = "idle"
        /\ s_threads = {}

-----------------------------------------------------------------------------
(* C31: every run reaches _finish_test *)

\* thread i is at the window test of a phase that has read nothing and the
\* model has no read_sensors() call left to give it
OutOfReads(i) ==
    at(i, "loop") /\ ~test_thread[i].polled /\ reads = MaxReads

\* thread i has been started
Started(i) == ~at(i, "none")

\* the step is thread i's call of _finish_test
CallsFinishTest(i) == at(i, "finish") /\ Moves(i)

\* thread i has made its call of _finish_test
PastFinish(i) == at(i, "return") \/ at(i, "done")

FinishStep(i) ==
    /\ CallsFinishTest(i) =>
          /\ ~running'
          /\ ui_queue' = ui_queue \o <<btn_start_cb("normal"), btn_stop_cb("disabled")>>
          /\ PastFinish(i)'
    /\ PastFinish(i) => PastFinish(i)'

\* C31: every test thread that has been started reaches _finish_test; the
\* call sets _running to false and schedules the enabling of Start and the
\* disabling of Stop, and the thread never comes back to it.
C31_EveryRunFinishes ==
    /\ \A i \in Threads : Started(i) ~> Finished(i) \/ OutOfReads(i)
    /\ [][\A i \in Threads : FinishStep(i)]_vars

\* C31 for the runs in which read_sensors() does not raise
C31_ListedPathsFinish ==
    /\ \A i \in Threads :
          Started(i) ~> Finished(i) \/ OutOfReads(i) \/ at(i, "dead")
    /\ [][\A i \in Threads : FinishStep(i)]_vars

\* once the flag is false and stays false an alive worker exits
C32_WorkersExit ==
    \A w \in WorkerIds :
        workers[w] = "alive" ~> workers[w] # "alive" \/ s_running

====
